---- MODULE Spec2Model ----
(***************************************************************************)
(* Detection head of the temporal action localisation model                *)
(* (actionformer+CLIP/libs/modeling/meta_archs.py, class PtTransformer):   *)
(* label assignment, Trident offset decoding, per-level inference          *)
(* filtering and postprocessing.                                           *)
(*                                                                         *)
(* Tensor elements are modelled as exact extended rationals <<n, d>>:      *)
(* d > 0 is the rational n/d in lowest terms, <<1,0>> is +inf, <<-1,0>> is *)
(* -inf and <<0,0>> is NaN.  Logits are given in units of ln 2, so that    *)
(* exp(x) is the exact rational 2^x.                                       *)
(***************************************************************************)
EXTENDS Integers, Sequences, FiniteSets, TLC

VARIABLES
    pc,                 \* position of the current call
    train_center_sample,        \* 'radius' | 'none'
    train_center_sample_radius, \* rational
    gt_segment,         \* sequence of <<start, end>> (rationals)
    gt_label,           \* sequence of class ids
    cls_targets,        \* point -> class -> value
    clip_targets,       \* point -> secondary class -> value
    reg_targets,        \* point -> <<left, right>> (rationals)
    min_len_inds,       \* point -> index of the selected segment (0 = no segments)
    out_offsets,        \* location -> <<left row, right row>> of regression logits
    pred_start_neighbours, \* class -> location -> row of start-head logits
    pred_end_neighbours,   \* class -> location -> row of end-head logits
    pred_left_dis,      \* class -> location -> left bin distribution (after masking)
    pred_right_dis,     \* class -> location -> right bin distribution (after masking)
    decoded_offsets,    \* class -> location -> <<left, right>>
    test_nms_method,    \* 'soft' | 'hard' | 'none'
    results,            \* per-video result handed to postprocessing
    nms_results,        \* segments / scores / labels after the NMS step
    segs_seconds,       \* segments after the conversion to seconds, before truncation
    processed_results,  \* result returned by postprocessing
    prev_processed,     \* result returned by the previous application
    applications,       \* number of postprocessing applications so far
    test_pre_nms_thresh,   \* rational
    test_pre_nms_topk,     \* positive integer
    test_duration_thresh,  \* rational
    level,              \* pyramid level the inference loop is at
    lvl,                \* inputs and locals of the level processed last
    segs_all,           \* per level: kept segments
    scores_all,         \* per level: kept scores
    cls_idxs_all,       \* per level: kept class indices
    infer_results,      \* result returned by inference_single_video
    training,           \* self.training during the forward call made last
    init_loss_norm,     \* train_cfg['init_loss_norm'] (rational)
    loss_normalizer,    \* self.loss_normalizer (rational)
    train_loss_weight,  \* rational
    train_label_smoothing,  \* rational
    calls,              \* number of forward calls so far
    video_list,         \* argument of the forward call made last
    fwd,                \* locals and outcome of the forward call made last
    model_cfg,          \* outcome of the constructor: the window configuration
    batched             \* arguments and outcome of the preprocessing call

labelVars == <<train_center_sample, train_center_sample_radius, gt_segment,
               gt_label, cls_targets, clip_targets, reg_targets, min_len_inds>>

decodeVars == <<out_offsets, pred_start_neighbours, pred_end_neighbours,
                pred_left_dis, pred_right_dis, decoded_offsets>>

postVars == <<test_nms_method, results, nms_results, segs_seconds,
              processed_results, prev_processed, applications>>

inferVars == <<test_pre_nms_thresh, test_pre_nms_topk, test_duration_thresh,
               level, lvl, segs_all, scores_all, cls_idxs_all, infer_results>>

configVars == <<model_cfg, batched>>

forwardVars == <<training, init_loss_norm, loss_normalizer, train_loss_weight,
                 train_label_smoothing, calls, video_list, fwd>>

vars == <<pc, labelVars, decodeVars, postVars, inferVars, forwardVars, configVars>>

(***************************************************************************)
(* Extended rational arithmetic (IEEE-like, without rounding).             *)
(***************************************************************************)
Abs(x) == IF x < 0 THEN -x ELSE x

Sign(x) == IF x < 0 THEN -1 ELSE IF x > 0 THEN 1 ELSE 0

RECURSIVE GCD(_, _)
GCD(a, b) == IF b = 0 THEN a ELSE GCD(b, a % b)

Norm(n, d) ==
    IF d = 0 THEN <<Sign(n), 0>>
    ELSE LET g == GCD(Abs(n), Abs(d))
         IN  <<(Sign(d) * n) \div g, Abs(d) \div g>>

R(n) == <<n, 1>>
Zero == <<0, 1>>
One == <<1, 1>>
Inf == <<1, 0>>
NegInf == <<-1, 0>>
NaN == <<0, 0>>

IsNaN(a) == a = NaN

RAdd(a, b) ==
    IF IsNaN(a) \/ IsNaN(b) THEN NaN
    ELSE IF a[2] = 0 /\ b[2] = 0 THEN (IF a = b THEN a ELSE NaN)
    ELSE IF a[2] = b[2] THEN Norm(a[1] + b[1], a[2])
    ELSE LET g == GCD(a[2], b[2])
         IN  Norm(a[1] * (b[2] \div g) + b[1] * (a[2] \div g), (a[2] \div g) * b[2])

RNeg(a) == <<-a[1], a[2]>>
RSub(a, b) == RAdd(a, RNeg(b))
RMul(a, b) ==
    IF a[2] = 1 /\ b[2] = 1 THEN <<a[1] * b[1], 1>>
    ELSE
    LET g1 == GCD(Abs(a[1]), b[2])
        g2 == GCD(Abs(b[1]), a[2])
        h1 == IF g1 = 0 THEN 1 ELSE g1
        h2 == IF g2 = 0 THEN 1 ELSE g2
    IN  Norm((a[1] \div h1) * (b[1] \div h2), (a[2] \div h2) * (b[2] \div h1))
RRecip(a) == IF a[1] < 0 THEN <<-a[2], -a[1]>> ELSE <<a[2], a[1]>>
RDiv(a, b) == RMul(a, RRecip(b))

RLt(a, b) ==
    /\ ~IsNaN(a) /\ ~IsNaN(b)
    /\ IF a[2] = 0 /\ b[2] = 0 THEN a[1] < b[1]
       ELSE a[1] * b[2] < b[1] * a[2]
RLe(a, b) ==
    /\ ~IsNaN(a) /\ ~IsNaN(b)
    /\ IF a[2] = 0 /\ b[2] = 0 THEN a[1] <= b[1]
       ELSE a[1] * b[2] <= b[1] * a[2]
RGt(a, b) == RLt(b, a)
RGe(a, b) == RLe(b, a)

\* torch.maximum / torch.minimum / Tensor.max / Tensor.min propagate NaN
RMax(a, b) == IF IsNaN(a) \/ IsNaN(b) THEN NaN ELSE IF RLt(a, b) THEN b ELSE a
RMin(a, b) == IF IsNaN(a) \/ IsNaN(b) THEN NaN ELSE IF RLt(b, a) THEN b ELSE a

RECURSIVE RSum(_)
RSum(s) == IF s = <<>> THEN Zero ELSE RAdd(Head(s), RSum(Tail(s)))

(***************************************************************************)
(* Configuration and feature-grid points.                                  *)
(***************************************************************************)
num_classes == 2
ClipVocab == 200
EPS == <<1, 1000>>
MaxGts == 2

fpn_strides == <<1, 2>>
LevelLen == <<4, 2>>
reg_range == << <<0, 2>>, <<2, 10000>> >>
NumLevels == Len(fpn_strides)

\* one table of (t, reg_range_min, reg_range_max, stride) per level
PointsOfLevel(l) ==
    [i \in 1..LevelLen[l] |->
        [t |-> R((i - 1) * fpn_strides[l]),
         rmin |-> R(reg_range[l][1]),
         rmax |-> R(reg_range[l][2]),
         stride |-> R(fpn_strides[l])]]

RECURSIVE ConcatLevels(_)
ConcatLevels(l) ==
    IF l > NumLevels THEN <<>> ELSE PointsOfLevel(l) \o ConcatLevels(l + 1)

concat_points == ConcatLevels(1)
num_pts == Len(concat_points)
Pts == 1..num_pts
Classes == 0..(num_classes - 1)
ClipClasses == 0..(ClipVocab - 1)

(***************************************************************************)
(* label_points_single_video                                               *)
(***************************************************************************)
SegLeft(p, seg) == RSub(concat_points[p].t, seg[1])
SegRight(p, seg) == RSub(seg[2], concat_points[p].t)

\* variant: the inside test is not strict (>= 0)
InsideGtSegMask_NonStrict(p, seg, mode, radius) ==
    IF mode = "radius"
    THEN LET center_pts == RMul(<<1, 2>>, RAdd(seg[1], seg[2]))
             t_mins == RSub(center_pts, RMul(concat_points[p].stride, radius))
             t_maxs == RAdd(center_pts, RMul(concat_points[p].stride, radius))
             cb_dist_left == RSub(concat_points[p].t, RMax(t_mins, seg[1]))
             cb_dist_right == RSub(RMin(t_maxs, seg[2]), concat_points[p].t)
         IN  RGe(RMin(cb_dist_left, cb_dist_right), Zero)
    ELSE RGe(RMin(SegLeft(p, seg), SegRight(p, seg)), Zero)

InsideGtSegMask(p, seg, mode, radius) ==
    IF mode = "radius"
    THEN LET center_pts == RMul(<<1, 2>>, RAdd(seg[1], seg[2]))
             t_mins == RSub(center_pts, RMul(concat_points[p].stride, radius))
             t_maxs == RAdd(center_pts, RMul(concat_points[p].stride, radius))
             cb_dist_left == RSub(concat_points[p].t, RMax(t_mins, seg[1]))
             cb_dist_right == RSub(RMin(t_maxs, seg[2]), concat_points[p].t)
         IN  RGt(RMin(cb_dist_left, cb_dist_right), Zero)
    ELSE RGt(RMin(SegLeft(p, seg), SegRight(p, seg)), Zero)

\* variant: only the upper end of the regression range is tested
InsideRegressRange_UpperOnly(p, seg) ==
    LET max_regress_distance == RMax(SegLeft(p, seg), SegRight(p, seg))
    IN  RLe(max_regress_distance, concat_points[p].rmax)

InsideRegressRange(p, seg) ==
    LET max_regress_distance == RMax(SegLeft(p, seg), SegRight(p, seg))
    IN  /\ RGe(max_regress_distance, concat_points[p].rmin)
        /\ RLe(max_regress_distance, concat_points[p].rmax)

\* variant: the second masked_fill_ (regression range) is missing
MaskedLens_NoRangeFill(p, seg, mode, radius) ==
    IF ~InsideGtSegMask(p, seg, mode, radius) THEN Inf
    ELSE RSub(seg[2], seg[1])

\* lens[p, g] after the two masked_fill_ calls
MaskedLens(p, seg, mode, radius) ==
    IF ~InsideGtSegMask(p, seg, mode, radius) THEN Inf
    ELSE IF ~InsideRegressRange(p, seg) THEN Inf
    ELSE RSub(seg[2], seg[1])

\* row p of lens, as a sequence over the ground-truth segments
RECURSIVE LensRow(_, _, _, _, _)
LensRow(p, segs, mode, radius, g) ==
    IF g > Len(segs) THEN <<>>
    ELSE <<MaskedLens(p, segs[g], mode, radius)>>
         \o LensRow(p, segs, mode, radius, g + 1)

RECURSIVE RowMin(_)
RowMin(row) ==
    IF Len(row) = 1 THEN row[1] ELSE RMin(row[1], RowMin(Tail(row)))

\* lens.min(dim=1) returns the index of the first minimal value
MinLenInds(row) ==
    LET min_len == RowMin(row)
    IN  CHOOSE g \in 1..Len(row) :
            /\ row[g] = min_len
            /\ \A h \in 1..(g - 1) : row[h] # min_len

\* variant: no 1e-3 tolerance, only exact minima are kept
RECURSIVE MinLenMask_NoTolerance(_, _, _)
MinLenMask_NoTolerance(row, min_len, g) ==
    IF g > Len(row) THEN <<>>
    ELSE <<IF RLe(row[g], min_len) /\ RLt(row[g], Inf) THEN 1 ELSE 0>>
         \o MinLenMask_NoTolerance(row, min_len, g + 1)

RECURSIVE MinLenMask(_, _, _)
MinLenMask(row, min_len, g) ==
    IF g > Len(row) THEN <<>>
    ELSE <<IF RLe(row[g], RAdd(min_len, EPS)) /\ RLt(row[g], Inf)
           THEN 1 ELSE 0>>
         \o MinLenMask(row, min_len, g + 1)

OneHot(label, c) == IF label = c THEN 1 ELSE 0

\* (min_len_mask @ gt_label_one_hot)[p, c] for the mask row of point p
RECURSIVE MaskMatMul(_, _, _, _)
MaskMatMul(mask, labels, c, g) ==
    IF g > Len(mask) THEN 0
    ELSE mask[g] * OneHot(labels[g], c) + MaskMatMul(mask, labels, c, g + 1)

Clamp01(x) == IF x < 0 THEN 0 ELSE IF x > 1 THEN 1 ELSE x

\* one-hot targets of width `width` for point p
TargetRow(p, segs, labels, mode, radius, width) ==
    LET row == LensRow(p, segs, mode, radius, 1)
        mask == MinLenMask(row, RowMin(row), 1)
    IN  [c \in 0..(width - 1) |-> Clamp01(MaskMatMul(mask, labels, c, 1))]

ClsTargetsOf(segs, labels, mode, radius) ==
    IF Len(segs) = 0 THEN [p \in Pts |-> [c \in Classes |-> 0]]
    ELSE [p \in Pts |-> TargetRow(p, segs, labels, mode, radius, num_classes)]

ClipTargetsOf(segs, labels, mode, radius) ==
    IF Len(segs) = 0 THEN [p \in Pts |-> [c \in ClipClasses |-> 0]]
    ELSE [p \in Pts |-> TargetRow(p, segs, labels, mode, radius, ClipVocab)]

MinLenIndsOf(segs, mode, radius) ==
    IF Len(segs) = 0 THEN [p \in Pts |-> 0]
    ELSE [p \in Pts |-> MinLenInds(LensRow(p, segs, mode, radius, 1))]

RegTargetsOf(segs, mode, radius) ==
    IF Len(segs) = 0 THEN [p \in Pts |-> <<Zero, Zero>>]
    ELSE [p \in Pts |->
            LET g == MinLenInds(LensRow(p, segs, mode, radius, 1))
            IN  <<RDiv(SegLeft(p, segs[g]), concat_points[p].stride),
                  RDiv(SegRight(p, segs[g]), concat_points[p].stride)>>]

LabelPointsSingleVideo ==
    /\ pc = "label"
    /\ cls_targets' = ClsTargetsOf(gt_segment, gt_label,
                         train_center_sample, train_center_sample_radius)
    /\ clip_targets' = ClipTargetsOf(gt_segment, gt_label,
                         train_center_sample, train_center_sample_radius)
    /\ reg_targets' = RegTargetsOf(gt_segment,
                         train_center_sample, train_center_sample_radius)
    /\ min_len_inds' = MinLenIndsOf(gt_segment,
                         train_center_sample, train_center_sample_radius)
    /\ pc' = "labelled"
    /\ UNCHANGED <<train_center_sample, train_center_sample_radius,
                   gt_segment, gt_label, decodeVars, postVars, inferVars,
                   forwardVars, configVars>>

\* ground-truth inputs: start < end, labels in [0, num_classes)
SegChoices ==
    { <<R(1), R(3)>>, <<Norm(2001, 2000), R(3)>>, <<R(0), R(4)>>,
      <<R(1), Norm(7, 2)>>, <<Norm(1, 2), R(5)>> }

RadiusChoices == { <<1, 2>>, <<3, 2>> }

SeqsUpTo(S, n) == UNION { [1..k -> S] : k \in 0..n }

LabelIdle ==
    /\ train_center_sample = "none"
    /\ train_center_sample_radius = Zero
    /\ gt_segment = <<>>
    /\ gt_label = <<>>
    /\ cls_targets = <<>>
    /\ clip_targets = <<>>
    /\ reg_targets = <<>>
    /\ min_len_inds = <<>>

DecodeIdle ==
    /\ out_offsets = <<>>
    /\ pred_start_neighbours = <<>>
    /\ pred_end_neighbours = <<>>
    /\ pred_left_dis = <<>>
    /\ pred_right_dis = <<>>
    /\ decoded_offsets = <<>>

PostIdle ==
    /\ test_nms_method = "none"
    /\ results = <<>>
    /\ nms_results = <<>>
    /\ segs_seconds = <<>>
    /\ processed_results = <<>>
    /\ prev_processed = <<>>
    /\ applications = 0

InferIdle ==
    /\ test_pre_nms_thresh = Zero
    /\ test_pre_nms_topk = 1
    /\ test_duration_thresh = Zero
    /\ level = 0
    /\ lvl = <<>>
    /\ segs_all = <<>>
    /\ scores_all = <<>>
    /\ cls_idxs_all = <<>>
    /\ infer_results = <<>>

ConfigIdle ==
    /\ model_cfg = <<>>
    /\ batched = <<>>

ForwardIdle ==
    /\ training = FALSE
    /\ init_loss_norm = Zero
    /\ loss_normalizer = Zero
    /\ train_loss_weight = Zero
    /\ train_label_smoothing = Zero
    /\ calls = 0
    /\ video_list = <<>>
    /\ fwd = <<>>

InitLabel ==
    /\ pc = "label"
    /\ train_center_sample \in {"radius", "none"}
    /\ train_center_sample_radius \in RadiusChoices
    /\ \E gts \in SeqsUpTo(SegChoices \X Classes, MaxGts) :
          /\ gt_segment = [g \in 1..Len(gts) |-> gts[g][1]]
          /\ gt_label = [g \in 1..Len(gts) |-> gts[g][2]]
    /\ cls_targets = <<>>
    /\ clip_targets = <<>>
    /\ reg_targets = <<>>
    /\ min_len_inds = <<>>
    /\ DecodeIdle
    /\ PostIdle
    /\ InferIdle
    /\ ForwardIdle
    /\ ConfigIdle

NextLabel == LabelPointsSingleVideo

SpecLabel == InitLabel /\ [][NextLabel]_vars

(***************************************************************************)
(* decode_offset                                                           *)
(***************************************************************************)
use_trident_head == TRUE
num_bins == 16

RECURSIVE Pow2(_)
Pow2(k) == IF k = 0 THEN 1 ELSE 2 * Pow2(k - 1)

\* exp of a logit given in units of ln 2 (integer, +-inf or NaN)
Exp(x) ==
    IF IsNaN(x) THEN NaN
    ELSE IF x = Inf THEN Inf
    ELSE IF x = NegInf THEN Zero
    ELSE IF x[1] >= 0 THEN <<Pow2(x[1]), 1>> ELSE <<1, Pow2(-x[1])>>

RECURSIVE RowMax(_)
RowMax(row) ==
    IF Len(row) = 1 THEN row[1] ELSE RMax(row[1], RowMax(Tail(row)))

RECURSIVE ExpShifted(_, _, _)
ExpShifted(row, m, k) ==
    IF k > Len(row) THEN <<>>
    ELSE <<Exp(RSub(row[k], m))>> \o ExpShifted(row, m, k + 1)

RECURSIVE DivideRow(_, _, _)
DivideRow(row, total, k) ==
    IF k > Len(row) THEN <<>>
    ELSE <<RDiv(row[k], total)>> \o DivideRow(row, total, k + 1)

\* torch.softmax(row, dim=-1): exp(x - max(x)) / sum(exp(x - max(x)))
Softmax(row) ==
    LET e == ExpShifted(row, RowMax(row), 1)
    IN  DivideRow(e, RSum(e), 1)

RECURSIVE AddRows(_, _, _)
AddRows(a, b, k) ==
    IF k > Len(a) THEN <<>>
    ELSE <<RAdd(a[k], b[k])>> \o AddRows(a, b, k + 1)

\* pred_left_dis.masked_fill(torch.isnan(pred_right_dis), 0)
RECURSIVE MaskedFillLeft(_, _, _)
MaskedFillLeft(left, right, k) ==
    IF k > Len(left) THEN <<>>
    ELSE <<IF IsNaN(right[k]) THEN Zero ELSE left[k]>>
         \o MaskedFillLeft(left, right, k + 1)

\* pred_right_dis.masked_fill(torch.isnan(pred_right_dis), 0)
RECURSIVE MaskedFillRight(_, _)
MaskedFillRight(right, k) ==
    IF k > Len(right) THEN <<>>
    ELSE <<IF IsNaN(right[k]) THEN Zero ELSE right[k]>>
         \o MaskedFillRight(right, k + 1)

\* variant: the left bin values start one lower, at max_range_num - 2
left_range_idx_StartLower(max_range_num) ==
    [k \in 1..max_range_num |-> R(IF k < max_range_num THEN max_range_num - k - 1 ELSE 0)]

\* torch.arange(max_range_num - 1, -1, -1) and torch.arange(max_range_num)
left_range_idx(max_range_num) == [k \in 1..max_range_num |-> R(max_range_num - k)]
right_range_idx(max_range_num) == [k \in 1..max_range_num |-> R(k - 1)]

\* torch.matmul(dis, range_idx) for one row
RECURSIVE Dot(_, _, _)
Dot(dis, idx, k) ==
    IF k > Len(dis) THEN Zero
    ELSE RAdd(RMul(dis[k], idx[k]), Dot(dis, idx, k + 1))

\* the two masked distributions of one (class, location) cell
DistributionsOf(off, start_nb, end_nb) ==
    LET left == Softmax(AddRows(start_nb, off[1], 1))
        right == Softmax(AddRows(end_nb, off[2], 1))
    IN  <<MaskedFillLeft(left, right, 1), MaskedFillRight(right, 1)>>

ExpectationOf(dis) ==
    LET max_range_num == Len(dis[1])
    IN  <<Dot(dis[1], left_range_idx(max_range_num), 1),
          Dot(dis[2], right_range_idx(max_range_num), 1)>>

\* class -> location -> the two masked distributions
DistributionCells(offs, start_nb, end_nb) ==
    [c \in DOMAIN start_nb |-> [t \in DOMAIN offs |->
        DistributionsOf(offs[t], start_nb[c][t], end_nb[c][t])]]

DecodeOffset ==
    /\ pc = "decode"
    /\ IF ~use_trident_head
       THEN /\ decoded_offsets' = out_offsets
            /\ UNCHANGED <<pred_left_dis, pred_right_dis>>
       ELSE /\ pred_left_dis' =
                 [c \in DOMAIN pred_start_neighbours |-> [t \in DOMAIN out_offsets |->
                     DistributionCells(out_offsets, pred_start_neighbours,
                                       pred_end_neighbours)[c][t][1]]]
            /\ pred_right_dis' =
                 [c \in DOMAIN pred_start_neighbours |-> [t \in DOMAIN out_offsets |->
                     DistributionCells(out_offsets, pred_start_neighbours,
                                       pred_end_neighbours)[c][t][2]]]
            /\ decoded_offsets' =
                 [c \in DOMAIN pred_start_neighbours |-> [t \in DOMAIN out_offsets |->
                     ExpectationOf(<<pred_left_dis'[c][t], pred_right_dis'[c][t]>>)]]
    /\ pc' = "decoded"
    /\ UNCHANGED <<out_offsets, pred_start_neighbours, pred_end_neighbours,
                   labelVars, postVars, inferVars, forwardVars, configVars>>

\* input rows: a background value with one distinguished bin
BinSlots == 1..(num_bins + 1)
SpikeRow(b, i, v) == [k \in BinSlots |-> IF k = i THEN v ELSE b]
NeighbourRows ==
    { SpikeRow(b, i, v) : b \in {Zero, NegInf},
                          i \in {1, num_bins \div 2 + 1, num_bins + 1},
                          v \in {Zero, R(2), NaN, Inf, NegInf} }
\* regression-head rows are non-negative (ReLU output)
OffsetRows ==
    { [k \in BinSlots |-> Zero], [k \in BinSlots |-> R((k - 1) % 3)] }

InitDecode ==
    /\ pc = "decode"
    /\ LabelIdle
    /\ \E l, r \in OffsetRows : out_offsets = << <<l, r>> >>
    /\ \E row \in NeighbourRows : pred_start_neighbours = << <<row>> >>
    /\ \E row \in NeighbourRows : pred_end_neighbours = << <<row>> >>
    /\ pred_left_dis = <<>>
    /\ pred_right_dis = <<>>
    /\ decoded_offsets = <<>>
    /\ PostIdle
    /\ InferIdle
    /\ ForwardIdle
    /\ ConfigIdle

NextDecode == DecodeOffset

SpecDecode == InitDecode /\ [][NextDecode]_vars

(***************************************************************************)
(* postprocessing                                                          *)
(***************************************************************************)
MaxSegs == 2
MaxApplications == 2

RECURSIVE SubSeqBy(_, _, _)
SubSeqBy(seq, keep, i) ==
    IF i > Len(seq) THEN <<>>
    ELSE (IF i \in keep THEN <<seq[i]>> ELSE <<>>) \o SubSeqBy(seq, keep, i + 1)

\* batched_nms (libs/utils): returns the detections it keeps, index-aligned
BatchedNms(segs, scores, labels, keep) ==
    [segments |-> SubSeqBy(segs, keep, 1),
     scores |-> SubSeqBy(scores, keep, 1),
     labels |-> SubSeqBy(labels, keep, 1)]

\* variant: floor division by fps
GridToSeconds_FloorDiv(g, stride, nframes, fps) ==
    LET q == RDiv(RAdd(RMul(g, stride), RMul(<<1, 2>>, nframes)), fps)
    IN  R((q[1] - (q[1] % q[2])) \div q[2])

\* variant: the division by fps is missing
GridToSeconds_NoFps(g, stride, nframes, fps) ==
    RAdd(RMul(g, stride), RMul(<<1, 2>>, nframes))

\* (segs * stride + 0.5 * nframes) / fps, element-wise
GridToSeconds(g, stride, nframes, fps) ==
    RDiv(RAdd(RMul(g, stride), RMul(<<1, 2>>, nframes)), fps)

\* variant: the lower truncation is missing
Truncate_NoLower(x, vlen) ==
    IF RGe(x, vlen) THEN RAdd(RMul(x, Zero), vlen) ELSE x

\* segs[segs<=0.0] *= 0.0 ; segs[segs>=vlen] = segs[segs>=vlen] * 0.0 + vlen
Truncate(x, vlen) ==
    LET y == IF RLe(x, Zero) THEN RMul(x, Zero) ELSE x
    IN  IF RGe(y, vlen) THEN RAdd(RMul(y, Zero), vlen) ELSE y

MapSegs(segs, stride, nframes, fps) ==
    [i \in DOMAIN segs |-> <<GridToSeconds(segs[i][1], stride, nframes, fps),
                             GridToSeconds(segs[i][2], stride, nframes, fps)>>]

TruncateSegs(segs, vlen) ==
    [i \in DOMAIN segs |-> <<Truncate(segs[i][1], vlen), Truncate(segs[i][2], vlen)>>]

Postprocessing ==
    /\ pc = "post"
    /\ \E keep \in (IF test_nms_method # "none"
                    THEN SUBSET (DOMAIN results.segments)
                    ELSE {DOMAIN results.segments}) :
         LET kept == BatchedNms(results.segments, results.scores,
                                results.labels, keep)
             secs == IF Len(kept.segments) > 0
                     THEN MapSegs(kept.segments, results.feat_stride,
                                  results.feat_num_frames, results.fps)
                     ELSE kept.segments
             segs == IF Len(kept.segments) > 0
                     THEN TruncateSegs(secs, results.duration)
                     ELSE kept.segments
         IN  /\ nms_results' = kept
             /\ segs_seconds' = secs
             /\ processed_results' = [video_id |-> results.video_id,
                                      segments |-> segs,
                                      scores |-> kept.scores,
                                      labels |-> kept.labels]
    /\ prev_processed' = processed_results
    /\ applications' = applications + 1
    /\ pc' = "posted"
    /\ UNCHANGED <<test_nms_method, results, labelVars, decodeVars, inferVars,
                   forwardVars, configVars>>

\* the caller hands the returned result, with the video's meta information
\* attached again, to postprocessing once more
Reapply ==
    /\ pc = "posted"
    /\ applications < MaxApplications
    /\ results' = [results EXCEPT !.segments = processed_results.segments,
                                  !.scores = processed_results.scores,
                                  !.labels = processed_results.labels]
    /\ pc' = "post"
    /\ UNCHANGED <<test_nms_method, nms_results, segs_seconds, processed_results,
                   prev_processed, applications, labelVars, decodeVars, inferVars,
                   forwardVars, configVars>>

\* detections on the feature grid: <<segment, score, label>>
DetectionChoices ==
    { << <<R(10), R(20)>>, <<9, 10>>, 0 >>,
      << <<R(-3), R(-2)>>, <<1, 2>>, 1 >>,
      << <<R(0), <<5, 2>> >>, <<1, 2>>, 0 >>,
      << <<R(1), R(100)>>, <<3, 10>>, 1 >>,
      << <<<<1, 4>>, <<3, 8>> >>, <<3, 10>>, 0 >> }

\* <<fps, duration, feat_stride, feat_num_frames>>
MetaChoices ==
    { <<R(25), <<3, 2>>, R(4), R(16)>>,
      <<R(25), R(10), R(4), R(16)>>,
      <<R(4), R(10), R(4), R(0)>>,
      <<R(30), R(2), R(8), R(32)>> }

InitPost ==
    /\ pc = "post"
    /\ LabelIdle
    /\ DecodeIdle
    /\ test_nms_method \in {"soft", "hard", "none"}
    /\ \E dets \in SeqsUpTo(DetectionChoices, MaxSegs) : \E meta \in MetaChoices :
          results = [video_id |-> "v", fps |-> meta[1], duration |-> meta[2],
                     feat_stride |-> meta[3], feat_num_frames |-> meta[4],
                     segments |-> [i \in 1..Len(dets) |-> dets[i][1]],
                     scores |-> [i \in 1..Len(dets) |-> dets[i][2]],
                     labels |-> [i \in 1..Len(dets) |-> dets[i][3]]]
    /\ nms_results = <<>>
    /\ segs_seconds = <<>>
    /\ processed_results = <<>>
    /\ prev_processed = <<>>
    /\ applications = 0
    /\ InferIdle
    /\ ForwardIdle
    /\ ConfigIdle

NextPost == Postprocessing \/ Reapply

SpecPost == InitPost /\ [][NextPost]_vars

(***************************************************************************)
(* inference_single_video                                                  *)
(***************************************************************************)
alpha == <<7, 10>>
beta == <<3, 10>>
InferLevelLen == <<2, 1>>
ClipDim == 2

\* points of one level as seen at inference: the first T_i grid points
InferPoints(l) == SubSeq(PointsOfLevel(l), 1, InferLevelLen[l])

\* sigmoid of a logit given in units of ln 2
Sigmoid(x) == RDiv(One, RAdd(One, Exp(RNeg(x))))

\* alpha * cls_i.sigmoid() + beta * max(clip_i, dim=1).sigmoid(), at (t, c)
CombinedProb(cls_i, clip_i, t, c) ==
    RAdd(RMul(alpha, Sigmoid(cls_i[t][c])),
         RMul(beta, Sigmoid(RowMax(clip_i[t]))))

\* variant: the mask is not applied
MaskValue_Ignored(m) == One

\* mask_i as a factor
MaskValue(m) == IF m THEN One ELSE Zero

\* variant: the scores are flattened class after class
RECURSIVE PredProb_ClassMajor(_, _, _, _)
PredProb_ClassMajor(cls_i, clip_i, mask_i, i) ==
    IF i > Len(cls_i) * num_classes THEN <<>>
    ELSE LET t == ((i - 1) % Len(cls_i)) + 1
             c == ((i - 1) \div Len(cls_i)) + 1
         IN  <<RMul(CombinedProb(cls_i, clip_i, t, c), MaskValue(mask_i[t]))>>
             \o PredProb_ClassMajor(cls_i, clip_i, mask_i, i + 1)

\* (combined_prob * mask_i.unsqueeze(-1)).flatten(); entry i holds flat index i - 1
RECURSIVE PredProb(_, _, _, _)
PredProb(cls_i, clip_i, mask_i, i) ==
    IF i > Len(cls_i) * num_classes THEN <<>>
    ELSE LET t == ((i - 1) \div num_classes) + 1
             c == ((i - 1) % num_classes) + 1
         IN  <<RMul(CombinedProb(cls_i, clip_i, t, c), MaskValue(mask_i[t]))>>
             \o PredProb(cls_i, clip_i, mask_i, i + 1)

\* variant: scores equal to the threshold are kept
RECURSIVE KeepIdxs1_NonStrict(_, _, _)
KeepIdxs1_NonStrict(pred_prob, thresh, i) ==
    IF i > Len(pred_prob) THEN <<>>
    ELSE (IF RGe(pred_prob[i], thresh) THEN <<i - 1>> ELSE <<>>)
         \o KeepIdxs1_NonStrict(pred_prob, thresh, i + 1)

\* (pred_prob > thresh).nonzero(): flat indices above the threshold, ascending
RECURSIVE KeepIdxs1(_, _, _)
KeepIdxs1(pred_prob, thresh, i) ==
    IF i > Len(pred_prob) THEN <<>>
    ELSE (IF RGt(pred_prob[i], thresh) THEN <<i - 1>> ELSE <<>>)
         \o KeepIdxs1(pred_prob, thresh, i + 1)

Min(a, b) == IF a < b THEN a ELSE b

\* pred_prob.sort(descending=True): every ordering with non-increasing scores
\* (the sort is not stable, so the order of equal scores is not determined)
SortedOrders(idxs, pred_prob) ==
    { o \in [1..Len(idxs) -> 1..Len(idxs)] :
        /\ \A i, j \in 1..Len(idxs) : i # j => o[i] # o[j]
        /\ \A i \in 1..(Len(idxs) - 1) :
              RGe(pred_prob[idxs[o[i]] + 1], pred_prob[idxs[o[i + 1]] + 1]) }

\* the function f over 1..n as an explicit sequence
AsSeq(f, n) == SubSeq(f, 1, n)

Zeros(n) == [k \in 1..n |-> Zero]
\* F.pad(row, (left, right), mode='constant', value=0) on the last dimension
Pad(row, left, right) == Zeros(left) \o AsSeq(row, Len(row)) \o Zeros(right)

\* the storage of a contiguous tensor of rows, row after row
RECURSIVE Storage(_, _)
Storage(rows, r) == IF r > Len(rows) THEN <<>> ELSE rows[r] \o Storage(rows, r + 1)

\* x.as_strided(size, stride) of a 3-d view: element (c, t, j), counted
\* from 0, is the storage cell c * stride[0] + t * stride[1] + j * stride[2]
AsStrided3(storage, size, stride) ==
    AsSeq([c \in 1..size[1] |-> AsSeq([t \in 1..size[2] |-> AsSeq([j \in 1..size[3] |->
        storage[(c - 1) * stride[1] + (t - 1) * stride[2] + (j - 1) * stride[3] + 1]],
        size[3])], size[2])], size[1])

\* the windows of x = F.pad(...).unsqueeze(-1), of size (C, T + num_bins, 1)
\* and stride (T + num_bins, 1, 1): x_size[-1] = num_bins + 1,
\* x_size[-2] -= num_bins, x_stride[-2] = x_stride[-1]
StridedWindows(padded) ==
    LET x_size == <<Len(padded), Len(padded[1]), 1>>
        x_stride == <<Len(padded[1]), 1, 1>>
    IN  AsStrided3(Storage(padded, 1),
                   <<x_size[1], x_size[2] - num_bins, num_bins + 1>>,
                   <<x_stride[1], x_stride[3], x_stride[3]>>)

\* variant: the start logits are padded on the right
StartNeighbours_PadRight(sb_cls_i) ==
    StridedWindows([c \in 1..Len(sb_cls_i) |-> Pad(sb_cls_i[c], 0, num_bins)])

\* F.pad(sb_cls_i, (num_bins, 0)) viewed as_strided
StartNeighbours(sb_cls_i) ==
    StridedWindows([c \in 1..Len(sb_cls_i) |-> Pad(sb_cls_i[c], num_bins, 0)])

\* F.pad(eb_cls_i, (0, num_bins)) viewed as_strided
EndNeighbours(eb_cls_i) ==
    StridedWindows([c \in 1..Len(eb_cls_i) |-> Pad(eb_cls_i[c], 0, num_bins)])

\* decode_offset in inference shape: class -> location -> <<left, right>>
DecodeOffsetOf(offsets_i, start_nb, end_nb) ==
    [c \in DOMAIN start_nb |-> [t \in DOMAIN offsets_i |->
        ExpectationOf(DistributionsOf(offsets_i[t], start_nb[c][t], end_nb[c][t]))]]

RECURSIVE Flatten(_)
Flatten(seqs) == IF seqs = <<>> THEN <<>> ELSE Head(seqs) \o Flatten(Tail(seqs))

\* variant: segments whose duration equals the threshold are kept
KeepIdxs2_NonStrict(pred_segs, duration_thresh) ==
    {k \in DOMAIN pred_segs :
        RGe(RSub(pred_segs[k][2], pred_segs[k][1]), duration_thresh)}

\* seg_areas = seg_right - seg_left; keep_idxs2 = seg_areas > test_duration_thresh
KeepIdxs2(pred_segs, duration_thresh) ==
    {k \in DOMAIN pred_segs :
        RGt(RSub(pred_segs[k][2], pred_segs[k][1]), duration_thresh)}

\* the locals of one iteration of the loop over the pyramid levels, for the
\* sort order idxs
LevelLocals(pts_i, cls_i, clip_i, offsets_i, mask_i, sb_cls_i, eb_cls_i, thresh, topk, duration_thresh, idxs) ==
    LET pred_prob == PredProb(cls_i, clip_i, mask_i, 1)
        keep_idxs1 == KeepIdxs1(pred_prob, thresh, 1)
        num_topk == Min(topk, Len(keep_idxs1))
        topk_idxs == AsSeq([k \in 1..num_topk |-> keep_idxs1[idxs[k]]], num_topk)
        topk_prob == AsSeq([k \in 1..num_topk |-> pred_prob[topk_idxs[k] + 1]], num_topk)
        pt_idxs == AsSeq([k \in 1..num_topk |-> topk_idxs[k] \div num_classes], num_topk)
        cls_idxs == AsSeq([k \in 1..num_topk |-> topk_idxs[k] % num_classes], num_topk)
        start_nb == StartNeighbours(sb_cls_i)
        end_nb == EndNeighbours(eb_cls_i)
        decoded == DecodeOffsetOf(offsets_i, start_nb, end_nb)
        offsets == AsSeq([k \in 1..num_topk |->
                      decoded[cls_idxs[k] + 1][pt_idxs[k] + 1]], num_topk)
        pts == AsSeq([k \in 1..num_topk |-> pts_i[pt_idxs[k] + 1]], num_topk)
        pred_segs == AsSeq([k \in 1..num_topk |->
            <<RSub(pts[k].t, RMul(offsets[k][1], pts[k].stride)),
              RAdd(pts[k].t, RMul(offsets[k][2], pts[k].stride))>>], num_topk)
        keep_idxs2 == KeepIdxs2(pred_segs, duration_thresh)
    IN  [cls_i |-> cls_i, clip_i |-> clip_i, offsets_i |-> offsets_i,
         mask_i |-> mask_i, sb_cls_i |-> sb_cls_i, eb_cls_i |-> eb_cls_i,
         pred_prob |-> pred_prob, topk_idxs |-> topk_idxs,
         topk_prob |-> topk_prob, pt_idxs |-> pt_idxs, cls_idxs |-> cls_idxs,
         pred_start_neighbours |-> start_nb, pred_end_neighbours |-> end_nb,
         offsets |-> offsets, pred_segs |-> pred_segs, keep_idxs2 |-> keep_idxs2]

SortedOrdersOf(cls_i, clip_i, mask_i, thresh) ==
    LET pred_prob == PredProb(cls_i, clip_i, mask_i, 1)
    IN  SortedOrders(KeepIdxs1(pred_prob, thresh, 1), pred_prob)

InferLevel(cls_i, clip_i, offsets_i, mask_i, sb_cls_i, eb_cls_i) ==
    /\ pc = "infer"
    /\ level <= NumLevels
    /\ \E idxs \in SortedOrdersOf(cls_i, clip_i, mask_i, test_pre_nms_thresh) :
          lvl' = LevelLocals(InferPoints(level), cls_i, clip_i, offsets_i, mask_i,
                             sb_cls_i, eb_cls_i, test_pre_nms_thresh,
                             test_pre_nms_topk, test_duration_thresh, idxs)
    /\ segs_all' = Append(segs_all, SubSeqBy(lvl'.pred_segs, lvl'.keep_idxs2, 1))
    /\ scores_all' = Append(scores_all, SubSeqBy(lvl'.topk_prob, lvl'.keep_idxs2, 1))
    /\ cls_idxs_all' = Append(cls_idxs_all, SubSeqBy(lvl'.cls_idxs, lvl'.keep_idxs2, 1))
    /\ level' = level + 1
    /\ UNCHANGED <<pc, test_pre_nms_thresh, test_pre_nms_topk, test_duration_thresh,
                   infer_results, labelVars, decodeVars, postVars, forwardVars, configVars>>

\* torch.cat over the levels and the returned dictionary
InferReturn ==
    /\ pc = "infer"
    /\ level > NumLevels
    /\ infer_results' = [segments |-> Flatten(segs_all),
                         scores |-> Flatten(scores_all),
                         labels |-> Flatten(cls_idxs_all)]
    /\ pc' = "inferred"
    /\ UNCHANGED <<test_pre_nms_thresh, test_pre_nms_topk, test_duration_thresh,
                   level, lvl, segs_all, scores_all, cls_idxs_all,
                   labelVars, decodeVars, postVars, forwardVars, configVars>>

\* per-location rows of classifier logits (one entry per class)
ClsRowChoices == { <<R(2), R(0)>>, <<R(-2), R(2)>>, <<R(0), R(0)>> }
ClipRowChoices == { [k \in 1..ClipDim |-> R(0)], [k \in 1..ClipDim |-> R(2 * k - 2)] }
MaskChoices(T) == { [t \in 1..T |-> t <= n] : n \in {T - 1, T} }
ZeroOffsets(T) == [t \in 1..T |-> <<[k \in BinSlots |-> Zero], [k \in BinSlots |-> Zero]>>]
RampOffsets(T) ==
    [t \in 1..T |-> <<[k \in BinSlots |-> R((k + t) % 3)], [k \in BinSlots |-> R(k % 2)]>>]
\* <<regression logits, start-head logits, end-head logits>>; the boundary
\* logits are class -> location -> logit
HeadChoices(T) ==
    { << ZeroOffsets(T),
         [c \in 1..num_classes |-> [t \in 1..T |-> Zero]],
         [c \in 1..num_classes |-> [t \in 1..T |-> Zero]] >>,
      << RampOffsets(T),
         [c \in 1..num_classes |-> [t \in 1..T |-> R(2 * c + t)]],
         [c \in 1..num_classes |-> [t \in 1..T |-> R(c - t)]] >>,
      << ZeroOffsets(T),
         [c \in 1..num_classes |-> [t \in 1..T |-> R(10)]],
         [c \in 1..num_classes |-> [t \in 1..T |-> R(10)]] >>,
      << RampOffsets(T),
         [c \in 1..num_classes |-> [t \in 1..T |-> R(3 * c)]],
         [c \in 1..num_classes |-> [t \in 1..T |-> R(3 * t)]] >>,
      << ZeroOffsets(T),
         [c \in 1..num_classes |-> [t \in 1..T |-> IF c = 1 /\ t = 1 THEN Inf ELSE Zero]],
         [c \in 1..num_classes |-> [t \in 1..T |-> Zero]] >>,
      << ZeroOffsets(T),
         [c \in 1..num_classes |-> [t \in 1..T |-> IF c = 1 THEN R(-3) ELSE Zero]],
         [c \in 1..num_classes |-> [t \in 1..T |-> Zero]] >> }

\* the first level is given the full choice of inputs, deeper levels a part
InferStep ==
    LET T == InferLevelLen[level]
    IN  \E cls_i \in [1..T -> ClsRowChoices] :
        \E clip_row \in (IF level = 1 THEN ClipRowChoices ELSE {[k \in 1..ClipDim |-> R(0)]}) :
        \E mask_i \in MaskChoices(T) :
        \E h \in (IF level = 1 THEN HeadChoices(T)
                  ELSE {x \in HeadChoices(T) : x[2][1][1] \in {Zero, R(10)}}) :
            InferLevel(cls_i, [t \in 1..T |-> clip_row], h[1], mask_i, h[2], h[3])

\* <<pre_nms_thresh, pre_nms_topk, duration_thresh>>
TestCfgChoices ==
    { << <<1, 2>>, 1, <<1, 20>> >>, << <<1, 2>>, 3, R(num_bins) >>,
      << <<1, 1000>>, 1, R(num_bins) >>, << <<1, 1000>>, 3, <<1, 20>> >> }

InitInfer ==
    /\ pc = "infer"
    /\ LabelIdle
    /\ DecodeIdle
    /\ PostIdle
    /\ \E cfg \in TestCfgChoices :
          /\ test_pre_nms_thresh = cfg[1]
          /\ test_pre_nms_topk = cfg[2]
          /\ test_duration_thresh = cfg[3]
    /\ level = 1
    /\ lvl = <<>>
    /\ segs_all = <<>>
    /\ scores_all = <<>>
    /\ cls_idxs_all = <<>>
    /\ infer_results = <<>>
    /\ ForwardIdle
    /\ ConfigIdle

NextInfer == (pc = "infer" /\ level <= NumLevels /\ InferStep) \/ InferReturn

SpecInfer == InitInfer /\ [][NextInfer]_vars

(***************************************************************************)
(* forward, preprocessing and losses                                       *)
(***************************************************************************)
max_seq_len == 4
mha_win_size == <<1, 3>>
loss_normalizer_momentum == <<9, 10>>
iou_weight_power == 1
MaxCalls == 3

\* stride = s * (w // 2) * 2 if w > 1 else s
LevelDivisorOf(s, w) == IF w > 1 THEN s * (w \div 2) * 2 ELSE s

LevelDivisor(l) == LevelDivisorOf(fpn_strides[l], mha_win_size[l])

RECURSIVE MaxDivFactor(_, _)
MaxDivFactor(l, acc) ==
    IF l > NumLevels THEN acc
    ELSE MaxDivFactor(l + 1, IF acc < LevelDivisor(l) THEN LevelDivisor(l) ELSE acc)

max_div_factor == MaxDivFactor(1, 1)

RECURSIVE SeqMax(_)
SeqMax(s) ==
    IF Len(s) = 1 THEN s[1]
    ELSE IF s[1] >= SeqMax(Tail(s)) THEN s[1] ELSE SeqMax(Tail(s))

FeatsLens(vl) == [b \in DOMAIN vl |-> vl[b].len]

\* variant: neither the length nor the batch size is asserted
Preprocessing_NoAsserts(is_training, feats_lens) ==
    LET max_len == SeqMax(feats_lens)
        padded == IF is_training \/ max_len <= max_seq_len THEN max_seq_len
                  ELSE ((max_len + (max_div_factor - 1)) \div max_div_factor)
                       * max_div_factor
    IN  [raised |-> "none", max_len |-> padded,
         batched_masks |-> [b \in DOMAIN feats_lens |->
                               [t \in 1..padded |-> t - 1 < feats_lens[b]]]]

\* preprocessing of a model constructed with the given max_seq_len and
\* max_div_factor: the padded length and
\* torch.arange(max_len)[None, :] < feats_lens[:, None], or the assertion
\* that fails
PreprocessingOf(self_max_seq_len, self_max_div_factor, is_training, feats_lens) ==
    LET max_len == SeqMax(feats_lens)
        stride == self_max_div_factor
        padded == IF is_training \/ max_len <= self_max_seq_len THEN self_max_seq_len
                  ELSE ((max_len + (stride - 1)) \div stride) * stride
        ok == IF is_training THEN max_len <= self_max_seq_len ELSE Len(feats_lens) = 1
    IN  IF ok
        THEN [raised |-> "none", max_len |-> padded,
              batched_masks |-> [b \in DOMAIN feats_lens |->
                                    [t \in 1..padded |-> t - 1 < feats_lens[b]]]]
        ELSE [raised |-> "AssertionError", max_len |-> 0, batched_masks |-> <<>>]

Preprocessing(is_training, feats_lens) ==
    PreprocessingOf(max_seq_len, max_div_factor, is_training, feats_lens)

\* the masks of the pyramid levels, concatenated: the point at time t of a
\* level takes the mask of input position t
ValidMask(batched_masks) ==
    [b \in DOMAIN batched_masks |->
        [p \in Pts |-> batched_masks[b][concat_points[p].t[1] + 1]]]

\* (b, p) and (b, p, c) in row-major order, as boolean indexing visits them
AllLocs(B) ==
    [i \in 1..(B * num_pts) |-> <<((i - 1) \div num_pts) + 1, ((i - 1) % num_pts) + 1>>]
AllElems(B) ==
    [i \in 1..(B * num_pts * num_classes) |->
        <<((i - 1) \div (num_pts * num_classes)) + 1,
          (((i - 1) \div num_classes) % num_pts) + 1,
          (i - 1) % num_classes>>]

RECURSIVE ClsSum(_, _)
ClsSum(row, c) == IF c >= num_classes THEN 0 ELSE row[c] + ClsSum(row, c + 1)

\* variant: the validity mask is not applied
PosMask_IgnoreValid(gt_cls, valid_mask) ==
    [b \in DOMAIN gt_cls |-> [p \in Pts |-> ClsSum(gt_cls[b][p], 0) > 0]]

\* variant: only the first class decides whether a location is positive
PosMask_FirstClass(gt_cls, valid_mask) ==
    [b \in DOMAIN gt_cls |-> [p \in Pts |-> gt_cls[b][p][0] > 0 /\ valid_mask[b][p]]]

\* torch.logical_and((gt_cls.sum(-1) > 0), valid_mask)
PosMask(gt_cls, valid_mask) ==
    [b \in DOMAIN gt_cls |->
        [p \in Pts |-> ClsSum(gt_cls[b][p], 0) > 0 /\ valid_mask[b][p]]]

\* variant: the count of positives is not floored at 1
LossNormalizerUpdate_NoFloor(old, num_pos) ==
    RAdd(RMul(loss_normalizer_momentum, old),
         RMul(RSub(One, loss_normalizer_momentum), R(num_pos)))

\* variant: the previous value of the normalizer is forgotten
LossNormalizerUpdate_CountOnly(old, num_pos) ==
    RMul(RSub(One, loss_normalizer_momentum), R(IF num_pos > 1 THEN num_pos ELSE 1))

\* momentum * loss_normalizer + (1 - momentum) * max(num_pos, 1)
LossNormalizerUpdate(old, num_pos) ==
    RAdd(RMul(loss_normalizer_momentum, old),
         RMul(RSub(One, loss_normalizer_momentum),
              R(IF num_pos > 1 THEN num_pos ELSE 1)))

\* Python's max(a, b)
PyMax(a, b) == IF RGt(b, a) THEN b ELSE a

RECURSIVE RPow(_, _)
RPow(x, n) == IF n = 0 THEN One ELSE RMul(x, RPow(x, n - 1))

\* variant: the regression loss itself is the divisor
LossWeight_PlainRatio(weight, cls_loss, reg_loss) ==
    IF RGt(weight, Zero) THEN weight ELSE RDiv(cls_loss, reg_loss)

\* train_loss_weight, or cls_loss.detach() / max(reg_loss.item(), 0.01)
LossWeight(weight, cls_loss, reg_loss) ==
    IF RGt(weight, Zero) THEN weight
    ELSE RDiv(cls_loss, PyMax(reg_loss, <<1, 100>>))

\* alpha * cls_loss + clip_loss * beta + reg_loss * loss_weight * (1 - alpha - beta)
FinalLoss(cls_loss, clip_loss, reg_loss, loss_weight) ==
    LET a == <<3, 10>>
        b == <<4, 10>>
    IN  RAdd(RAdd(RMul(a, cls_loss), RMul(clip_loss, Norm(b[1], b[2]))),
             RMul(RMul(reg_loss, loss_weight), RSub(RSub(One, a), Norm(b[1], b[2]))))

\* values returned by the loss functions for one call; k selects the table
SigmoidFocalLoss(k, e) == Norm(1 + ((e[1] + e[2] + e[3] + k) % 3), 4)
ClipFocalLossSum(k, num_valid) == Norm(num_valid * (k + 1), 2)
CtrGiouLoss1d(k, pred_row, gt_row) == Norm(((pred_row[2] + pred_row[3] + k) % 3) + (gt_row[2] % 2), 4)
CtrDiouLoss1d(k, pred_row, gt_row) == Norm(1 + ((pred_row[2] + gt_row[2] + k) % 2), 2)
\* the sum of the two decoded offsets of a row
PredOffsetsSum(k, pred_row) == R(pred_row[2] + k)

\* number of TRUE entries among the first i
RECURSIVE CountTrue(_, _)
CountTrue(flags, i) ==
    IF i = 0 THEN 0 ELSE (IF flags[i] THEN 1 ELSE 0) + CountTrue(flags, i - 1)

\* index of x in the sequence s (0 when absent)
RECURSIVE IndexOf(_, _, _)
IndexOf(s, x, i) ==
    IF i > Len(s) THEN 0 ELSE IF s[i] = x THEN i ELSE IndexOf(s, x, i + 1)

\* x.as_strided(size, stride) of a 4-d view followed by permute(0, 2, 1, 3):
\* element (b, t, c, j) of the result is the storage cell
\* b * stride[0] + c * stride[1] + t * stride[2] + j * stride[3]
AsStrided4Permuted(storage, size, stride) ==
    AsSeq([b \in 1..size[1] |-> AsSeq([t \in 1..size[3] |->
        AsSeq([c \in 1..size[2] |-> AsSeq([j \in 1..size[4] |->
            storage[(b - 1) * stride[1] + (c - 1) * stride[2]
                    + (t - 1) * stride[3] + (j - 1) * stride[4] + 1]],
        size[4])], size[2])], size[3])], size[1])

\* the windows of x = F.pad(out[i], ...).unsqueeze(-1), of size
\* (B, C, T + num_bins, 1) and stride (C * (T + num_bins), T + num_bins, 1, 1)
BatchedWindows(padded) ==
    LET x_size == <<Len(padded), Len(padded[1]), Len(padded[1][1]), 1>>
        x_stride == <<x_size[2] * x_size[3], x_size[3], 1, 1>>
        storage == Storage([b \in 1..Len(padded) |-> Storage(padded[b], 1)], 1)
    IN  AsStrided4Permuted(storage,
            <<x_size[1], x_size[2], x_size[3] - num_bins, num_bins + 1>>,
            <<x_stride[1], x_stride[2], x_stride[4], x_stride[4]>>)

\* out_start_logits and out_end_logits: per level (B, T_i, C, num_bins + 1)
OutStartLogits(out_start) ==
    [i \in 1..Len(out_start) |->
        BatchedWindows([b \in 1..Len(out_start[i]) |-> [c \in 1..Len(out_start[i][b]) |->
            Pad(out_start[i][b][c], num_bins, 0)]])]
OutEndLogits(out_end) ==
    [i \in 1..Len(out_end) |->
        BatchedWindows([b \in 1..Len(out_end[i]) |-> [c \in 1..Len(out_end[i][b]) |->
            Pad(out_end[i][b][c], 0, num_bins)]])]

\* the loss computation: its locals, the four losses and the new normalizer
Losses(gt_cls, gt_offsets, valid_mask, out_start, out_end, k, old_normalizer, weight, smoothing) ==
    LET B == Len(gt_cls)
        pos_mask == PosMask(gt_cls, valid_mask)
        pos_locs == SelectSeq(AllLocs(B), LAMBDA x : pos_mask[x[1]][x[2]])
        \* decoded_offsets[pos_mask][gt_cls[pos_mask].bool()]
        pred_rows == SelectSeq(AllElems(B),
                        LAMBDA e : pos_mask[e[1]][e[2]] /\ gt_cls[e[1]][e[2]][e[3]] # 0)
        \* torch.where(gt_cls[pos_mask])[0]
        vid == AsSeq([r \in 1..Len(pred_rows) |->
                   IndexOf(pos_locs, <<pred_rows[r][1], pred_rows[r][2]>>, 1) - 1],
                   Len(pred_rows))
        \* torch.stack(gt_offsets)[pos_mask][vid]
        gt_rows == AsSeq([r \in 1..Len(vid) |-> pos_locs[vid[r] + 1]], Len(vid))
        num_pos == Len(pos_locs)
        new_normalizer == LossNormalizerUpdate(old_normalizer, num_pos)
        valid_elems == SelectSeq(AllElems(B), LAMBDA e : valid_mask[e[1]][e[2]])
        num_elems == Len(valid_elems)
        floor == RDiv(smoothing, R(num_classes + 1))
        gt_target == AsSeq([i \in 1..num_elems |->
            RAdd(RMul(R(gt_cls[valid_elems[i][1]][valid_elems[i][2]][valid_elems[i][3]]),
                      RSub(One, smoothing)), floor)], num_elems)
        focal == AsSeq([i \in 1..num_elems |-> SigmoidFocalLoss(k, valid_elems[i])],
                       num_elems)
        iou_rate == AsSeq([r \in 1..Len(pred_rows) |->
                        CtrGiouLoss1d(k, pred_rows[r], gt_rows[r])], Len(pred_rows))
        rated_mask == AsSeq([i \in 1..num_elems |-> RGt(gt_target[i], floor)], num_elems)
        shapes_agree == CountTrue(rated_mask, num_elems) = Len(iou_rate)
        rated_loss == AsSeq([i \in 1..num_elems |->
            IF rated_mask[i] /\ shapes_agree
            THEN RMul(focal[i],
                      RPow(RSub(One, iou_rate[CountTrue(rated_mask, i)]), iou_weight_power))
            ELSE focal[i]], num_elems)
        \* cls_loss.sum(), and the sums the two reduction='sum' calls return
        cls_loss_sum == RSum(rated_loss)
        clip_loss_sum == ClipFocalLossSum(k, num_elems \div num_classes)
        reg_loss_sum == RSum(AsSeq([r \in 1..Len(pred_rows) |->
                            CtrDiouLoss1d(k, pred_rows[r], gt_rows[r])], Len(pred_rows)))
        cls_loss == RDiv(cls_loss_sum, new_normalizer)
        clip_loss == RDiv(clip_loss_sum, new_normalizer)
        reg_loss ==
            IF num_pos = 0
            THEN RMul(Zero, RSum(AsSeq([r \in 1..Len(pred_rows) |->
                                    PredOffsetsSum(k, pred_rows[r])], Len(pred_rows))))
            ELSE RDiv(reg_loss_sum, new_normalizer)
        loss_weight == LossWeight(weight, cls_loss, reg_loss)
    IN  [raised |-> IF shapes_agree THEN "none" ELSE "IndexError",
         out_start |-> out_start, out_end |-> out_end,
         out_start_logits |-> OutStartLogits(out_start),
         out_end_logits |-> OutEndLogits(out_end),
         pos_mask |-> pos_mask, num_pos |-> num_pos, pred_rows |-> pred_rows,
         gt_rows |-> gt_rows, valid_elems |-> valid_elems, gt_target |-> gt_target,
         focal |-> focal, iou_rate |-> iou_rate, rated_mask |-> rated_mask,
         rated_loss |-> rated_loss, loss_normalizer |-> new_normalizer,
         loss_weight |-> loss_weight, cls_loss_sum |-> cls_loss_sum,
         clip_loss_sum |-> clip_loss_sum, reg_loss_sum |-> reg_loss_sum,
         cls_loss |-> cls_loss, reg_loss |-> reg_loss, clip_loss |-> clip_loss,
         final_loss |-> FinalLoss(cls_loss, clip_loss, reg_loss, loss_weight)]

NoLosses == <<>>

\* logits of a boundary head, per level (B, C, T_i): every entry differs
BoundaryLogits(B, k) ==
    [i \in 1..NumLevels |-> [b \in 1..B |-> [c \in 1..num_classes |->
        [t \in 1..LevelLen[i] |-> R(1000 * k + 100 * i + 20 * b + 10 * c + t)]]]]

\* inference: for every video of the batch and every level, the slices
\* sb_cls_i, eb_cls_i of the boundary logits and the neighbour windows
\* inference_single_video builds from them
InferenceNeighbours(out_start, out_end) ==
    [b \in DOMAIN out_start[1] |-> [i \in DOMAIN out_start |->
        LET sb_cls_i == AsSeq([c \in 1..num_classes |->
                            AsSeq(out_start[i][b][c], LevelLen[i])], num_classes)
            eb_cls_i == AsSeq([c \in 1..num_classes |->
                            AsSeq(out_end[i][b][c], LevelLen[i])], num_classes)
        IN  [sb_cls_i |-> sb_cls_i, eb_cls_i |-> eb_cls_i,
             pred_start_neighbours |-> StartNeighbours(sb_cls_i),
             pred_end_neighbours |-> EndNeighbours(eb_cls_i)]]]

\* the forward call: the exception raised (if any), how far it got, what it
\* returned and the normalizer it leaves
ForwardOf(is_training, vl, k, old_normalizer, weight, smoothing, mode, radius) ==
    LET pre == Preprocessing(is_training, FeatsLens(vl))
        aborted(exc, heads) ==
            [raised |-> exc, heads_evaluated |-> heads, returned |-> "nothing",
             pre |-> pre, valid_mask |-> <<>>, gt_cls |-> <<>>, losses |-> NoLosses,
             neighbours |-> <<>>, loss_normalizer |-> old_normalizer]
    IN  IF pre.raised # "none" THEN aborted(pre.raised, FALSE)
        ELSE IF ~is_training
        THEN [raised |-> "none", heads_evaluated |-> TRUE, returned |-> "results",
              pre |-> pre, valid_mask |-> <<>>, gt_cls |-> <<>>, losses |-> NoLosses,
              neighbours |-> InferenceNeighbours(BoundaryLogits(Len(vl), k),
                                                 BoundaryLogits(Len(vl), k + 5)),
              loss_normalizer |-> old_normalizer]
        ELSE IF ~vl[1].annotated THEN aborted("AssertionError", TRUE)
        ELSE IF \E b \in DOMAIN vl : ~vl[b].annotated THEN aborted("AttributeError", TRUE)
        ELSE LET valid_mask == ValidMask(pre.batched_masks)
                 gt_cls == [b \in DOMAIN vl |->
                               ClsTargetsOf(vl[b].segments, vl[b].labels, mode, radius)]
                 gt_offsets == [b \in DOMAIN vl |->
                                   RegTargetsOf(vl[b].segments, mode, radius)]
                 l == Losses(gt_cls, gt_offsets, valid_mask,
                             BoundaryLogits(Len(vl), k), BoundaryLogits(Len(vl), k + 5),
                             k, old_normalizer, weight, smoothing)
             IN  [raised |-> l.raised, heads_evaluated |-> TRUE,
                  returned |-> IF l.raised = "none" THEN "losses" ELSE "nothing",
                  pre |-> pre, valid_mask |-> valid_mask, gt_cls |-> gt_cls,
                  losses |-> l, neighbours |-> <<>>,
                  loss_normalizer |-> l.loss_normalizer]

Forward(is_training, vl, k) ==
    /\ pc = "forward"
    /\ calls < MaxCalls
    /\ training' = is_training
    /\ video_list' = vl
    /\ fwd' = ForwardOf(is_training, vl, k, loss_normalizer, train_loss_weight,
                        train_label_smoothing, train_center_sample,
                        train_center_sample_radius)
    /\ loss_normalizer' = fwd'.loss_normalizer
    /\ calls' = calls + 1
    /\ UNCHANGED <<pc, init_loss_norm, train_loss_weight, train_label_smoothing,
                   labelVars, decodeVars, postVars, inferVars, configVars>>

\* videos: feature length, ground-truth segments and labels (None when the
\* record carries no annotation)
VideoChoices ==
    << [len |-> 4, annotated |-> TRUE, segments |-> << <<R(1), R(3)>> >>, labels |-> <<0>>],
       [len |-> 2, annotated |-> TRUE, segments |-> << <<R(1), R(3)>> >>, labels |-> <<1>>],
       [len |-> 4, annotated |-> TRUE, segments |-> <<>>, labels |-> <<>>],
       [len |-> 4, annotated |-> TRUE,
        segments |-> << <<R(1), R(3)>>, <<Norm(2001, 2000), R(3)>> >>, labels |-> <<0, 1>>],
       [len |-> 5, annotated |-> TRUE, segments |-> << <<R(1), R(3)>> >>, labels |-> <<0>>],
       [len |-> 4, annotated |-> FALSE, segments |-> <<>>, labels |-> <<>>],
       [len |-> 3, annotated |-> TRUE, segments |-> << <<R(0), R(4)>> >>, labels |-> <<1>>] >>

BatchChoices ==
    { <<VideoChoices[i]>> : i \in DOMAIN VideoChoices }
    \cup { <<VideoChoices[ij[1]], VideoChoices[ij[2]]>> :
              ij \in { <<1, 4>>, <<3, 3>>, <<2, 1>>, <<1, 5>>, <<1, 6>>, <<7, 2>> } }

ForwardTraining == \E vl \in BatchChoices : \E k \in {0, 1} : Forward(TRUE, vl, k)

InferenceBatchChoices ==
    { <<VideoChoices[1]>>, <<VideoChoices[5]>>, <<VideoChoices[1], VideoChoices[4]>> }

ForwardInference == \E vl \in InferenceBatchChoices : Forward(FALSE, vl, 0)

InitForward ==
    /\ pc = "forward"
    /\ LabelIdle
    /\ DecodeIdle
    /\ PostIdle
    /\ InferIdle
    /\ ConfigIdle
    /\ training = TRUE
    /\ init_loss_norm \in { <<1, 2>>, R(2) }
    /\ loss_normalizer = init_loss_norm
    /\ train_loss_weight \in { Zero, R(2) }
    /\ train_label_smoothing \in { Zero, <<1, 10>> }
    /\ calls = 0
    /\ video_list = <<>>
    /\ fwd = <<>>

NextForward == ForwardTraining \/ ForwardInference

SpecForward == InitForward /\ [][NextForward]_vars

(***************************************************************************)
(* The constructor's window configuration and preprocessing               *)
(***************************************************************************)
MaxSeqLenChoice == 12
MaxFeatsLen == 14

\* [n_mha_win_size] * (1 + backbone_arch[-1]) for an int n_mha_win_size
WinSizeFromInt(w) == AsSeq([l \in 1..NumLevels |-> w], NumLevels)

\* the loop over zip(fpn_strides, mha_win_size): the assertion that fails,
\* or the largest stride
RECURSIVE ConstructorLoop(_, _, _, _)
ConstructorLoop(n_max_seq_len, wins, l, acc) ==
    IF l > NumLevels THEN [raised |-> "none", max_div_factor |-> acc]
    ELSE LET stride == LevelDivisorOf(fpn_strides[l], wins[l])
         IN  IF n_max_seq_len % stride # 0
             THEN [raised |-> "AssertionError", max_div_factor |-> acc]
             ELSE ConstructorLoop(n_max_seq_len, wins, l + 1,
                                  IF acc < stride THEN stride ELSE acc)

\* the part of __init__ that checks the pyramid and the attention windows:
\* the attributes it sets, or the assertion that fails
Constructor(n_max_seq_len, n_mha_win_size) ==
    IF Len(n_mha_win_size) # NumLevels
    THEN [raised |-> "AssertionError", max_seq_len |-> n_max_seq_len,
          mha_win_size |-> n_mha_win_size, max_div_factor |-> 0]
    ELSE LET r == ConstructorLoop(n_max_seq_len, n_mha_win_size, 1, 1)
         IN  [raised |-> r.raised, max_seq_len |-> n_max_seq_len,
              mha_win_size |-> n_mha_win_size, max_div_factor |-> r.max_div_factor]

Construct(n_max_seq_len, n_mha_win_size) ==
    /\ pc = "construct"
    /\ model_cfg' = Constructor(n_max_seq_len, n_mha_win_size)
    /\ pc' = IF model_cfg'.raised = "none" THEN "constructed" ELSE "rejected"
    /\ UNCHANGED <<batched, labelVars, decodeVars, postVars, inferVars, forwardVars>>

IntWinChoices == {-1, 1, 3, 5, 7}
ListWinChoices ==
    { <<1, 1>>, <<1, 3>>, <<3, 1>>, <<3, 3>>, <<5, 3>>, <<3, 5>>, <<7, 3>>,
      <<3, 7>>, <<7, -1>>, <<7, 5>>, <<3>>, <<3, 3, 3>> }

ConstructFromInt ==
    \E n \in 1..MaxSeqLenChoice : \E w \in IntWinChoices :
        Construct(n, WinSizeFromInt(w))

ConstructFromList ==
    \E n \in 1..MaxSeqLenChoice : \E ws \in ListWinChoices : Construct(n, ws)

PreprocessingCall(is_training, feats_lens) ==
    /\ pc = "constructed"
    /\ batched' = [training |-> is_training, feats_lens |-> feats_lens,
                   out |-> PreprocessingOf(model_cfg.max_seq_len, model_cfg.max_div_factor,
                                           is_training, feats_lens)]
    /\ pc' = "preprocessed"
    /\ UNCHANGED <<model_cfg, labelVars, decodeVars, postVars, inferVars, forwardVars>>

FeatsLensChoices ==
    { <<n>> : n \in 1..MaxFeatsLen } \cup { <<2, MaxFeatsLen>>, <<3, 1>> }

PreprocessingStep ==
    \E is_training \in BOOLEAN : \E feats_lens \in FeatsLensChoices :
        PreprocessingCall(is_training, feats_lens)

InitPreprocessing ==
    /\ pc = "construct"
    /\ LabelIdle
    /\ DecodeIdle
    /\ PostIdle
    /\ InferIdle
    /\ ForwardIdle
    /\ model_cfg = <<>>
    /\ batched = <<>>

NextPreprocessing == ConstructFromInt \/ ConstructFromList \/ PreprocessingStep

SpecPreprocessing == InitPreprocessing /\ [][NextPreprocessing]_vars

(***************************************************************************)
(* The detection head as a whole: one call of any of the operations.       *)
(***************************************************************************)
Init ==
    InitLabel \/ InitDecode \/ InitPost \/ InitInfer \/ InitForward \/ InitPreprocessing

Next ==
    NextLabel \/ NextDecode \/ NextPost \/ NextInfer \/ NextForward \/ NextPreprocessing

Spec == Init /\ [][Next]_vars

(***************************************************************************)
(* Properties of label_points_single_video.  The candidate relation below  *)
(* is written from the documented contract, over the call's inputs.        *)
(***************************************************************************)
Labelled == pc = "labelled"
Gts == 1..Len(gt_segment)
PtT(p) == concat_points[p].t
PtStride(p) == concat_points[p].stride
GtLeft(p, g) == RSub(PtT(p), gt_segment[g][1])
GtRight(p, g) == RSub(gt_segment[g][2], PtT(p))
GtDuration(g) == RSub(gt_segment[g][2], gt_segment[g][1])
GtCenter(g) == RDiv(RAdd(gt_segment[g][1], gt_segment[g][2]), R(2))

StrictlyInsideSegment(p, g) ==
    RLt(gt_segment[g][1], PtT(p)) /\ RLt(PtT(p), gt_segment[g][2])

StrictlyInsideWindow(p, g) ==
    LET lo == RMax(gt_segment[g][1],
                   RSub(GtCenter(g), RMul(PtStride(p), train_center_sample_radius)))
        hi == RMin(gt_segment[g][2],
                   RAdd(GtCenter(g), RMul(PtStride(p), train_center_sample_radius)))
    IN  RLt(lo, PtT(p)) /\ RLt(PtT(p), hi)

WithinRegRange(p, g) ==
    LET m == RMax(GtLeft(p, g), GtRight(p, g))
    IN  RLe(concat_points[p].rmin, m) /\ RLe(m, concat_points[p].rmax)

IsCandidate(p, g) ==
    /\ IF train_center_sample = "radius" THEN StrictlyInsideWindow(p, g)
       ELSE StrictlyInsideSegment(p, g)
    /\ WithinRegRange(p, g)

HasCandidate(p) == \E g \in Gts : IsCandidate(p, g)
IsPositive(p) == \E c \in Classes : cls_targets[p][c] # 0
AllZeroCls(p) ==
    /\ \A c \in Classes : cls_targets[p][c] = 0
    /\ \A c \in ClipClasses : clip_targets[p][c] = 0
StrideNormalised(p, g) ==
    <<RDiv(GtLeft(p, g), PtStride(p)), RDiv(GtRight(p, g), PtStride(p))>>

C2_RangeGating ==
    Labelled => \A p \in Pts :
        IsPositive(p) =>
            /\ min_len_inds[p] \in Gts
            /\ reg_targets[p] = StrideNormalised(p, min_len_inds[p])
            /\ WithinRegRange(p, min_len_inds[p])

C2_Witness ==
    /\ Labelled
    /\ \E p, q \in Pts :
          /\ IsPositive(p) /\ PtStride(p) = R(2)
          /\ ~IsPositive(q) /\ \E g \in Gts :
                StrictlyInsideSegment(q, g) /\ ~WithinRegRange(q, g)

\* C3: a point is positive iff some single segment passes both the inside
\* test of the configured mode and the regression-range test; a positive
\* point is strictly inside its segment and both regression targets are > 0.
C3_PositiveIffCandidate ==
    Labelled => \A p \in Pts :
        /\ IsPositive(p) <=> HasCandidate(p)
        /\ IsPositive(p) =>
              /\ StrictlyInsideSegment(p, min_len_inds[p])
              /\ RGt(reg_targets[p][1], Zero)
              /\ RGt(reg_targets[p][2], Zero)

C3_Witness ==
    /\ Labelled
    /\ train_center_sample = "radius"
    /\ \E p, q \in Pts :
          /\ IsPositive(p)
          /\ ~IsPositive(q)
          /\ \E g \in Gts : StrictlyInsideSegment(q, g) /\ WithinRegRange(q, g)

\* C4: for a point with a candidate, class c is 1 exactly when a candidate
\* with label c has duration <= minimum candidate duration + 1e-3, all other
\* entries are 0 (none exceeds 1), and the regression target is the
\* stride-normalised distance pair of a minimum-duration candidate.
IsShortest(p, g) ==
    IsCandidate(p, g) /\ \A h \in Gts : IsCandidate(p, h) => RLe(GtDuration(g), GtDuration(h))
IsTied(p, g) ==
    /\ IsCandidate(p, g)
    /\ \E m \in Gts : IsShortest(p, m) /\ RLe(GtDuration(g), RAdd(GtDuration(m), EPS))

TiedLabels(p) == {gt_label[g] : g \in {h \in Gts : IsTied(p, h)}}

C4_ShortestDurationTargets ==
    Labelled => \A p \in Pts :
        HasCandidate(p) =>
            LET tied == TiedLabels(p)
            IN  /\ \A c \in Classes :
                      cls_targets[p][c] = IF c \in tied THEN 1 ELSE 0
                /\ \A c \in ClipClasses :
                      clip_targets[p][c] = IF c \in tied THEN 1 ELSE 0
                /\ \E g \in Gts :
                      IsShortest(p, g) /\ reg_targets[p] = StrideNormalised(p, g)

C4_Witness ==
    /\ Labelled
    /\ \E p \in Pts : \E g, h \in Gts :
          /\ IsCandidate(p, g) /\ IsCandidate(p, h)
          /\ gt_label[g] # gt_label[h]
          /\ GtDuration(g) # GtDuration(h)
          /\ cls_targets[p][gt_label[g]] = 1 /\ cls_targets[p][gt_label[h]] = 1

(***************************************************************************)
(* Properties of decode_offset (distribution mode).                        *)
(***************************************************************************)
Decoded == pc = "decoded"
Cells == {<<c, t>> \in (DOMAIN decoded_offsets) \X (DOMAIN out_offsets) : TRUE}
HasNaN(row) == \E k \in DOMAIN row : IsNaN(row[k])

\* C5: both components of every decoded offset lie in [0, num_bins].
C5_OffsetsWithinBins ==
    Decoded => \A cell \in Cells :
        LET o == decoded_offsets[cell[1]][cell[2]]
        IN  /\ RLe(Zero, o[1]) /\ RLe(o[1], R(num_bins))
            /\ RLe(Zero, o[2]) /\ RLe(o[2], R(num_bins))

\* C6: every NaN entry of the left and of the right distribution is
\* replaced by 0 before the expectation, so neither decoded offset is NaN.
C6_NaNReplacedByZero ==
    Decoded => \A cell \in Cells :
        /\ ~HasNaN(pred_left_dis[cell[1]][cell[2]])
        /\ ~HasNaN(pred_right_dis[cell[1]][cell[2]])
        /\ ~IsNaN(decoded_offsets[cell[1]][cell[2]][1])
        /\ ~IsNaN(decoded_offsets[cell[1]][cell[2]][2])

\* sum over the window slots j = 1 .. num_bins + 1 of dis[j] * value(j)
RECURSIVE WeightedSum(_, _, _)
WeightedSum(dis, value(_), j) ==
    IF j > num_bins + 1 THEN Zero
    ELSE RAdd(RMul(dis[j], R(value(j))), WeightedSum(dis, value, j + 1))
\* bin values by window slot
StatedLeftBin(j) == IF j <= num_bins THEN num_bins - j ELSE 0
LeftBin(j) == num_bins + 1 - j
RightBin(j) == j - 1

\* C16 (as stated): the left offset is the sum of the left distribution
\* weighted by bin values that start at num_bins - 1 in the first window
\* slot and run down to 0; the right offset is the sum of the right
\* distribution weighted by 0 .. num_bins.
C16_LeftBinsFromNumBinsMinusOne ==
    Decoded => \A cell \in Cells :
        /\ decoded_offsets[cell[1]][cell[2]][1] =
               WeightedSum(pred_left_dis[cell[1]][cell[2]], StatedLeftBin, 1)
        /\ decoded_offsets[cell[1]][cell[2]][2] =
               WeightedSum(pred_right_dis[cell[1]][cell[2]], RightBin, 1)

\* C16 (amended): the left distribution is weighted by num_bins down to 0
\* over its num_bins + 1 window slots, the right distribution by 0 up to
\* num_bins; each decoded offset is that weighted sum.
C16_BinValues ==
    Decoded => \A cell \in Cells :
        /\ Len(pred_left_dis[cell[1]][cell[2]]) = num_bins + 1
        /\ Len(pred_right_dis[cell[1]][cell[2]]) = num_bins + 1
        /\ decoded_offsets[cell[1]][cell[2]][1] =
               WeightedSum(pred_left_dis[cell[1]][cell[2]], LeftBin, 1)
        /\ decoded_offsets[cell[1]][cell[2]][2] =
               WeightedSum(pred_right_dis[cell[1]][cell[2]], RightBin, 1)

\* all the left probability in the first window slot decodes to num_bins,
\* all the right probability in the last slot decodes to num_bins as well
C16_Witness ==
    /\ Decoded
    /\ \E cell \in Cells :
          /\ pred_left_dis[cell[1]][cell[2]][1] = One
          /\ decoded_offsets[cell[1]][cell[2]][1] = R(num_bins)
          /\ pred_right_dis[cell[1]][cell[2]][num_bins + 1] = One
          /\ decoded_offsets[cell[1]][cell[2]][2] = R(num_bins)

(***************************************************************************)
(* Properties of postprocessing.                                           *)
(***************************************************************************)
Posted == pc = "posted"
Ends == {1, 2}
\* (g * feat_stride + 0.5 * feat_num_frames) / fps for the video's meta data
SecondsOf(g) ==
    RDiv(RAdd(RMul(g, results.feat_stride), RDiv(results.feat_num_frames, R(2))),
         results.fps)
ClipToDuration(x) ==
    IF RLe(x, Zero) THEN Zero
    ELSE IF RGe(x, results.duration) THEN results.duration
    ELSE x

\* C7: for a non-empty result every output endpoint equals
\* clip((g * feat_stride + 0.5 * feat_num_frames) / fps, 0, duration) of the
\* grid endpoint g, and therefore lies in [0, duration].
C7_MappedAndClipped ==
    (Posted /\ Len(nms_results.segments) > 0) =>
        /\ Len(processed_results.segments) = Len(nms_results.segments)
        /\ \A i \in DOMAIN nms_results.segments : \A k \in Ends :
              LET out == processed_results.segments[i][k]
              IN  /\ out = ClipToDuration(SecondsOf(nms_results.segments[i][k]))
                  /\ RLe(Zero, out) /\ RLe(out, results.duration)

\* g = 10, stride 4, 16 frames, fps 25 maps to 1.92 and is clipped to the
\* duration 1.5; another endpoint maps below 0 and becomes 0.
C7_Witness ==
    /\ Posted
    /\ results.fps = R(25) /\ results.feat_stride = R(4)
    /\ results.feat_num_frames = R(16) /\ results.duration = <<3, 2>>
    /\ \E i, j \in DOMAIN nms_results.segments :
          /\ nms_results.segments[i][1] = R(10)
          /\ segs_seconds[i][1] = <<48, 25>>
          /\ processed_results.segments[i][1] = <<3, 2>>
          /\ RLt(segs_seconds[j][1], Zero)
          /\ processed_results.segments[j][1] = Zero

SecondApplication == Posted /\ applications = 2 /\ test_nms_method = "none"

\* C8 (as stated): with nms_method = 'none' a second application of
\* postprocessing to its own output returns the same segments, scores and
\* labels as the first.
C8_Idempotent ==
    SecondApplication =>
        /\ processed_results.segments = prev_processed.segments
        /\ processed_results.scores = prev_processed.scores
        /\ processed_results.labels = prev_processed.labels

\* C8 (amended): with nms_method = 'none' a second application keeps the
\* scores, the labels and the number of segments of the first output, and
\* maps every endpoint x of the first output again to
\* clip((x * feat_stride + 0.5 * feat_num_frames) / fps, 0, duration).
C8_SecondApplicationRemaps ==
    SecondApplication =>
        /\ processed_results.scores = prev_processed.scores
        /\ processed_results.labels = prev_processed.labels
        /\ Len(processed_results.segments) = Len(prev_processed.segments)
        /\ \A i \in DOMAIN prev_processed.segments : \A k \in Ends :
              processed_results.segments[i][k] =
                  ClipToDuration(SecondsOf(prev_processed.segments[i][k]))

C8_Witness ==
    /\ SecondApplication
    /\ Len(prev_processed.segments) > 0
    /\ \A i \in DOMAIN prev_processed.segments : \A k \in Ends :
          RLe(Zero, prev_processed.segments[i][k])
          /\ RLe(prev_processed.segments[i][k], results.duration)
    /\ processed_results.segments # prev_processed.segments

\* C9: for positive feat_stride and fps the grid-to-seconds conversion is
\* strictly increasing in the grid value.
C9_StrictlyIncreasing ==
    (Posted /\ Len(nms_results.segments) > 0
        /\ RGt(results.feat_stride, Zero) /\ RGt(results.fps, Zero)) =>
        \A i, j \in DOMAIN nms_results.segments : \A k, l \in Ends :
            RLt(nms_results.segments[i][k], nms_results.segments[j][l])
                => RLt(segs_seconds[i][k], segs_seconds[j][l])

C9_Witness ==
    /\ Posted
    /\ RGt(results.feat_stride, Zero) /\ RGt(results.fps, Zero)
    /\ \E i, j \in DOMAIN nms_results.segments : \E k, l \in Ends :
          /\ RLt(nms_results.segments[i][k], nms_results.segments[j][l])
          /\ RLt(segs_seconds[i][k], segs_seconds[j][l])
          /\ processed_results.segments[i][k] = processed_results.segments[j][l]

(***************************************************************************)
(* Properties of inference_single_video.                                   *)
(***************************************************************************)
LevelDone == pc = "infer" /\ level > 1
FlatIdxs == 0..(Len(lvl.pred_prob) - 1)
ScoreAt(i) == lvl.pred_prob[i + 1]
AboveThresh == {i \in FlatIdxs : RGt(ScoreAt(i), test_pre_nms_thresh)}
KeptIdxs == {lvl.topk_idxs[k] : k \in DOMAIN lvl.topk_idxs}

\* C10: per level the pairs passing the pre-NMS filter are those with score
\* strictly above pre_nms_thresh, cut to the min(pre_nms_topk, count)
\* highest ones in descending order; no dropped above-threshold pair scores
\* strictly higher than a kept one.
C10_ThresholdThenTopk ==
    LevelDone =>
        /\ KeptIdxs \subseteq AboveThresh
        /\ Len(lvl.topk_idxs) = Min(test_pre_nms_topk, Cardinality(AboveThresh))
        /\ Cardinality(KeptIdxs) = Len(lvl.topk_idxs)
        /\ Len(lvl.topk_prob) = Len(lvl.topk_idxs)
        /\ \A k \in DOMAIN lvl.topk_idxs :
              /\ lvl.topk_prob[k] = ScoreAt(lvl.topk_idxs[k])
              /\ RGt(lvl.topk_prob[k], test_pre_nms_thresh)
              /\ k > 1 => RGe(lvl.topk_prob[k - 1], lvl.topk_prob[k])
        /\ \A d \in AboveThresh \ KeptIdxs : \A k \in KeptIdxs :
              ~RGt(ScoreAt(d), ScoreAt(k))

\* more pairs above the threshold than pre_nms_topk, one of them dropped
\* with a score equal to a kept one, and an unmasked pair below the threshold
C10_Witness ==
    /\ LevelDone
    /\ Cardinality(AboveThresh) > test_pre_nms_topk
    /\ Len(lvl.topk_idxs) = test_pre_nms_topk
    /\ \E d \in AboveThresh \ KeptIdxs : \E k \in KeptIdxs : ScoreAt(d) = ScoreAt(k)
    /\ \E d \in AboveThresh \ KeptIdxs : \E k \in KeptIdxs : RLt(ScoreAt(d), ScoreAt(k))
    /\ \E i \in FlatIdxs : RGt(ScoreAt(i), Zero) /\ i \notin AboveThresh

Inferred == pc = "inferred"
Duration(seg) == RSub(seg[2], seg[1])
\* positions of the level's candidates whose duration exceeds the threshold
LongEnough ==
    {k \in DOMAIN lvl.pred_segs :
        RGt(Duration(lvl.pred_segs[k]), test_duration_thresh)}
RECURSIVE SumLen(_)
SumLen(seqs) == IF seqs = <<>> THEN 0 ELSE Len(Head(seqs)) + SumLen(Tail(seqs))

\* C11: every segment kept by a level, and every segment returned, has
\* duration (end - start) strictly greater than duration_thresh; a candidate
\* with duration <= duration_thresh is dropped together with its score and
\* label, so the three outputs have the same length and stay index-aligned
\* at every level and in the returned dictionary.
C11_DurationFilter ==
    /\ LevelDone =>
          /\ segs_all[level - 1] = SubSeqBy(lvl.pred_segs, LongEnough, 1)
          /\ scores_all[level - 1] = SubSeqBy(lvl.topk_prob, LongEnough, 1)
          /\ cls_idxs_all[level - 1] = SubSeqBy(lvl.cls_idxs, LongEnough, 1)
          /\ \A l \in DOMAIN segs_all :
                /\ Len(scores_all[l]) = Len(segs_all[l])
                /\ Len(cls_idxs_all[l]) = Len(segs_all[l])
                /\ \A k \in DOMAIN segs_all[l] :
                      RGt(Duration(segs_all[l][k]), test_duration_thresh)
    /\ Inferred =>
          /\ Len(infer_results.segments) = SumLen(segs_all)
          /\ Len(infer_results.scores) = Len(infer_results.segments)
          /\ Len(infer_results.labels) = Len(infer_results.segments)
          /\ \A k \in DOMAIN infer_results.segments :
                RGt(Duration(infer_results.segments[k]), test_duration_thresh)
          /\ \A l \in DOMAIN segs_all : \A k \in DOMAIN segs_all[l] :
                LET i == SumLen(SubSeq(segs_all, 1, l - 1)) + k
                IN  /\ infer_results.segments[i] = segs_all[l][k]
                    /\ infer_results.scores[i] = scores_all[l][k]
                    /\ infer_results.labels[i] = cls_idxs_all[l][k]

\* a level with a candidate whose duration equals the threshold (dropped),
\* one whose duration is NaN (dropped) or below the threshold, and one kept
C11_Witness ==
    /\ LevelDone
    /\ \E k \in DOMAIN lvl.pred_segs :
          Duration(lvl.pred_segs[k]) = test_duration_thresh /\ k \notin lvl.keep_idxs2
    /\ \E k \in DOMAIN lvl.pred_segs : k \in lvl.keep_idxs2
    /\ Len(segs_all[level - 1]) < Len(lvl.pred_segs)
    /\ Len(segs_all[level - 1]) > 0

\* the combined probability of class c (from 0) at location t (from 0)
CombinedAt(t, c) ==
    RAdd(RMul(<<7, 10>>, Sigmoid(lvl.cls_i[t + 1][c + 1])),
         RMul(<<3, 10>>, Sigmoid(RowMax(lvl.clip_i[t + 1]))))
Candidates == DOMAIN lvl.topk_idxs
\* the decoded <<left, right>> of class c (from 0) at location t (from 0)
DecodedAt(t, c) ==
    DecodeOffsetOf(lvl.offsets_i, lvl.pred_start_neighbours,
                   lvl.pred_end_neighbours)[c + 1][t + 1]

\* C18: for every candidate with flat index i the recovered location is
\* i div num_classes and the recovered class is i mod num_classes, so that
\* location * num_classes + class = i and 0 <= class < num_classes; its
\* score is the combined probability of that (location, class) pair, its
\* label is that class and its offsets are the decoded offsets of that
\* class at that location; the detections of the level are the candidates
\* that pass the duration filter, with these scores and labels.
C18_FlatIndexRecovery ==
    LevelDone =>
        /\ \A k \in Candidates :
              LET i == lvl.topk_idxs[k]
                  loc == lvl.pt_idxs[k]
                  class == lvl.cls_idxs[k]
              IN  /\ loc = i \div num_classes
                  /\ class = i % num_classes
                  /\ loc * num_classes + class = i
                  /\ 0 <= class /\ class < num_classes
                  /\ 0 <= loc /\ loc < Len(lvl.cls_i)
                  /\ lvl.topk_prob[k] = CombinedAt(loc, class)
                  /\ lvl.offsets[k] = DecodedAt(loc, class)
        /\ scores_all[level - 1] = SubSeqBy(lvl.topk_prob, lvl.keep_idxs2, 1)
        /\ cls_idxs_all[level - 1] = SubSeqBy(lvl.cls_idxs, lvl.keep_idxs2, 1)

\* two kept detections at the same location with different classes, scores
\* and offsets, and one at another location
C18_Witness ==
    /\ LevelDone
    /\ \E k, m, n \in lvl.keep_idxs2 :
          /\ lvl.pt_idxs[k] = lvl.pt_idxs[m] /\ lvl.cls_idxs[k] # lvl.cls_idxs[m]
          /\ lvl.topk_prob[k] # lvl.topk_prob[m]
          /\ lvl.offsets[k] # lvl.offsets[m]
          /\ lvl.pt_idxs[n] # lvl.pt_idxs[k]
          /\ lvl.pt_idxs[n] > 0 /\ lvl.cls_idxs[n] > 0

MaskedIdxs == {i \in FlatIdxs : ~lvl.mask_i[(i \div num_classes) + 1]}

\* C20: the score of every pair at a masked location is 0 before the
\* threshold is applied; with pre_nms_thresh >= 0 no candidate, and so no
\* returned detection, comes from a masked location.
C20_MaskedLocationsDropped ==
    LevelDone =>
        /\ \A i \in MaskedIdxs : ScoreAt(i) = Zero
        /\ RGe(test_pre_nms_thresh, Zero) =>
              /\ \A k \in Candidates : lvl.topk_idxs[k] \notin MaskedIdxs
              /\ \A k \in Candidates : lvl.mask_i[lvl.pt_idxs[k] + 1]
              /\ Len(scores_all[level - 1]) <= Len(lvl.topk_idxs)

\* a masked location whose logits alone would pass the threshold, next to a
\* valid location that yields a candidate
C20_Witness ==
    /\ LevelDone
    /\ RGe(test_pre_nms_thresh, Zero)
    /\ \E i \in MaskedIdxs :
          RGt(CombinedAt(i \div num_classes, i % num_classes), test_pre_nms_thresh)
    /\ Len(lvl.topk_idxs) > 0
    /\ Len(lvl.topk_idxs) < test_pre_nms_topk

(***************************************************************************)
(* Properties of forward, preprocessing and losses.                        *)
(***************************************************************************)
Called == pc = "forward" /\ calls > 0
\* the call reached the loss computation
LossesReached(f) == f.gt_cls # <<>>
\* locations that are valid and whose primary target sums to > 0
PositiveLocs(f) ==
    {x \in (DOMAIN f.gt_cls) \X Pts :
        /\ f.valid_mask[x[1]][x[2]]
        /\ \E c \in Classes : f.gt_cls[x[1]][x[2]][c] > 0}
Ema(old, count) ==
    RAdd(RMul(<<9, 10>>, old), RMul(<<1, 10>>, R(IF count >= 1 THEN count ELSE 1)))
TooLong(vl) == \E b \in DOMAIN vl : vl[b].len > max_seq_len

\* C12: the normalizer starts at init_loss_norm; a forward call that
\* computes the training losses sets it to
\* 0.9 * old + 0.1 * max(num_pos, 1), num_pos being the number of valid
\* locations whose primary target sums to > 0; every other call (inference,
\* aborted) leaves it as it is.
C12_NormalizerEma ==
    [][ /\ calls = 0 => loss_normalizer = init_loss_norm
        /\ IF training' /\ LossesReached(fwd')
           THEN loss_normalizer' =
                    Ema(loss_normalizer, Cardinality(PositiveLocs(fwd')))
           ELSE loss_normalizer' = loss_normalizer ]_vars

\* a later training step with two positives and a positive target at a
\* padded location, on a normalizer that earlier steps had moved
C12_Witness ==
    /\ Called /\ calls >= 2 /\ training
    /\ fwd.returned = "losses"
    /\ Cardinality(PositiveLocs(fwd)) = 2
    /\ \E b \in DOMAIN fwd.gt_cls : \E p \in Pts :
          ~fwd.valid_mask[b][p] /\ fwd.gt_cls[b][p][1] > 0
    /\ loss_normalizer = Ema(<<11, 20>>, 2)

\* C13: an inference call with more than one video, and a training call
\* with an input longer than max_seq_len, raise an AssertionError in
\* preprocessing before any head is evaluated, return nothing and leave the
\* normalizer unchanged.
C13_PreprocessingAsserts ==
    [][ ((~training' /\ Len(video_list') > 1) \/ (training' /\ TooLong(video_list')))
        => /\ fwd'.raised = "AssertionError"
           /\ fwd'.pre.raised = "AssertionError"
           /\ ~fwd'.heads_evaluated
           /\ fwd'.returned = "nothing"
           /\ loss_normalizer' = loss_normalizer ]_vars

\* an inference call with two videos, after training steps moved the normalizer
C13_Witness ==
    /\ Called /\ ~training
    /\ Len(video_list) = 2
    /\ fwd.raised = "AssertionError" /\ ~fwd.heads_evaluated
    /\ loss_normalizer # init_loss_norm

Combined(cls_loss, clip_loss, reg_loss, w) ==
    RAdd(RAdd(RMul(<<3, 10>>, cls_loss), RMul(<<4, 10>>, clip_loss)),
         RMul(<<3, 10>>, RMul(w, reg_loss)))

\* C14 (as stated): final_loss = 0.3 * cls_loss + 0.4 * clip_loss +
\* 0.3 * w * reg_loss with w = train_loss_weight when that is > 0 and
\* w = cls_loss / reg_loss otherwise.
C14_PlainRatio ==
    (Called /\ fwd.returned = "losses") =>
        LET l == fwd.losses
            w == IF RGt(train_loss_weight, Zero) THEN train_loss_weight
                 ELSE RDiv(l.cls_loss, l.reg_loss)
        IN  l.final_loss = Combined(l.cls_loss, l.clip_loss, l.reg_loss, w)

\* C14 (amended): as above, but with w = cls_loss / max(reg_loss, 0.01)
\* when train_loss_weight is not > 0.
C14_ClampedRatio ==
    (Called /\ fwd.returned = "losses") =>
        LET l == fwd.losses
            w == IF RGt(train_loss_weight, Zero) THEN train_loss_weight
                 ELSE RDiv(l.cls_loss,
                           IF RGe(l.reg_loss, <<1, 100>>) THEN l.reg_loss ELSE <<1, 100>>)
        IN  /\ l.loss_weight = w
            /\ l.final_loss = Combined(l.cls_loss, l.clip_loss, l.reg_loss, w)

\* auto-balancing with a regression loss below 0.01
C14_Witness ==
    /\ Called /\ fwd.returned = "losses"
    /\ ~RGt(train_loss_weight, Zero)
    /\ RLt(fwd.losses.reg_loss, <<1, 100>>)
    /\ RGt(fwd.losses.cls_loss, Zero)
    /\ fwd.losses.loss_weight = RMul(R(100), fwd.losses.cls_loss)

\* C15: a training loss computation without any positive location raises
\* nothing, returns the four named losses with reg_loss = 0, and moves the
\* normalizer to 0.9 * old + 0.1.
C15_NoPositives ==
    [][ (training' /\ LossesReached(fwd') /\ PositiveLocs(fwd') = {})
        => /\ fwd'.raised = "none"
           /\ fwd'.returned = "losses"
           /\ {"cls_loss", "reg_loss", "clip_loss", "final_loss"}
                  \subseteq DOMAIN fwd'.losses
           /\ fwd'.losses.reg_loss = Zero
           /\ ~IsNaN(fwd'.losses.final_loss)
           /\ loss_normalizer' =
                  RAdd(RMul(<<9, 10>>, loss_normalizer), <<1, 10>>) ]_vars

\* a batch whose videos all have zero ground-truth segments, with the
\* auto-balancing loss weight
C15_Witness ==
    /\ Called /\ training /\ fwd.returned = "losses"
    /\ Len(video_list) = 2
    /\ \A b \in DOMAIN video_list : Len(video_list[b].segments) = 0
    /\ fwd.losses.num_pos = 0
    /\ fwd.losses.reg_loss = Zero
    /\ train_loss_weight = Zero

Smaller(a, b) == IF RLe(a, b) THEN a ELSE b
Finite(x) == x[2] # 0

\* C21: with init_loss_norm > 0 the loss normalizer is > 0 and
\* >= min(init_loss_norm, 1) before and after every call, whatever the
\* numbers of positives of the training steps were; a training step divides
\* its summed cls_loss and clip_loss, and its summed reg_loss when it has
\* positives, by the normalizer as it is after the step's update (not by
\* the value before it), and the quotients are finite.
C21_NormalizerPositive ==
    [][ RGt(init_loss_norm, Zero) =>
          /\ RGt(loss_normalizer, Zero) /\ RGt(loss_normalizer', Zero)
          /\ RGe(loss_normalizer, Smaller(init_loss_norm, One))
          /\ RGe(loss_normalizer', Smaller(init_loss_norm, One))
          /\ fwd'.returned = "losses" =>
                LET l == fwd'.losses
                IN  /\ l.loss_normalizer = loss_normalizer'
                    /\ l.cls_loss = RDiv(l.cls_loss_sum, loss_normalizer')
                    /\ l.clip_loss = RDiv(l.clip_loss_sum, loss_normalizer')
                    /\ l.num_pos > 0 => l.reg_loss = RDiv(l.reg_loss_sum, loss_normalizer')
                    /\ Finite(l.cls_loss) /\ Finite(l.clip_loss) /\ Finite(l.reg_loss)
                    /\ (loss_normalizer' # loss_normalizer /\ l.cls_loss_sum # Zero)
                          => l.cls_loss # RDiv(l.cls_loss_sum, loss_normalizer) ]_vars

\* a third training step without positives on a normalizer that started at
\* 1/2 and is still below 1 but has moved
C21_Witness ==
    /\ Called /\ calls >= 3 /\ training /\ fwd.returned = "losses"
    /\ init_loss_norm = <<1, 2>>
    /\ fwd.losses.num_pos = 0
    /\ RLt(loss_normalizer, One) /\ RGt(loss_normalizer, init_loss_norm)
    /\ fwd.losses.cls_loss_sum # Zero
    /\ fwd.losses.cls_loss = RDiv(fwd.losses.cls_loss_sum, loss_normalizer)

(***************************************************************************)
(* Properties of the IoU reweighting of the classification loss.           *)
(***************************************************************************)
\* (batch element, point, class) triples at valid locations whose primary
\* target is set
SetPairs(f) ==
    {e \in (DOMAIN f.gt_cls) \X Pts \X Classes :
        f.valid_mask[e[1]][e[2]] /\ f.gt_cls[e[1]][e[2]][e[3]] > 0}
\* row-major order of the triples
Before(e1, e2) ==
    \/ e1[1] < e2[1]
    \/ e1[1] = e2[1] /\ e1[2] < e2[2]
    \/ e1[1] = e2[1] /\ e1[2] = e2[2] /\ e1[3] < e2[3]
\* number of selected classification-loss elements among the first i
RatedUpTo(l, i) == Cardinality({j \in 1..i : l.rated_mask[j]})

\* C23: with label smoothing in [0, 1), the classification-loss elements
\* selected for reweighting are exactly the elements of the valid
\* locations whose target is set; the r-th selected element and the r-th
\* row of the predicted and ground-truth offsets belong to the same
\* (location, class) pair, one row per pair (two rows for a location with
\* two classes set); the selected element is scaled by
\* (1 - iou_rate[r]) ^ iou_weight_power and every other element is left as
\* the focal loss returned it.
C23_RatedCorrespondence ==
    (Called /\ training /\ LossesReached(fwd)
        /\ RGe(train_label_smoothing, Zero) /\ RLt(train_label_smoothing, One)) =>
        LET l == fwd.losses
            n == Len(l.valid_elems)
            rated == {i \in 1..n : l.rated_mask[i]}
        IN  /\ l.raised = "none"
            /\ {l.valid_elems[i] : i \in rated} = SetPairs(fwd)
            /\ Len(l.pred_rows) = Cardinality(rated)
            /\ Len(l.gt_rows) = Cardinality(rated)
            /\ Len(l.iou_rate) = Cardinality(rated)
            /\ Cardinality(SetPairs(fwd)) = Cardinality(rated)
            /\ \A i \in rated :
                  LET r == RatedUpTo(l, i)
                  IN  /\ l.pred_rows[r] = l.valid_elems[i]
                      /\ l.gt_rows[r] = <<l.valid_elems[i][1], l.valid_elems[i][2]>>
                      /\ l.rated_loss[i] =
                             RMul(l.focal[i], RPow(RSub(One, l.iou_rate[r]), iou_weight_power))
            /\ \A r1, r2 \in DOMAIN l.pred_rows :
                  r1 < r2 => Before(l.pred_rows[r1], l.pred_rows[r2])
            /\ \A i \in (1..n) \ rated : l.rated_loss[i] = l.focal[i]

\* a batch of two with label smoothing: a location with two classes set
\* (two rows), rows of the second video after those of the first, a scaled
\* element and an element that is not selected
C23_Witness ==
    /\ Called /\ fwd.returned = "losses"
    /\ RGt(train_label_smoothing, Zero)
    /\ Len(video_list) = 2
    /\ LET l == fwd.losses
       IN  /\ \E r \in DOMAIN l.pred_rows :
                 /\ r + 1 \in DOMAIN l.pred_rows
                 /\ l.gt_rows[r] = l.gt_rows[r + 1]
                 /\ l.pred_rows[r][3] # l.pred_rows[r + 1][3]
           /\ \E r1, r2 \in DOMAIN l.pred_rows :
                 r1 < r2 /\ l.pred_rows[r1][1] < l.pred_rows[r2][1]
           /\ \E i \in DOMAIN l.rated_loss :
                 l.rated_mask[i] /\ l.rated_loss[i] # l.focal[i]
           /\ \E i \in DOMAIN l.rated_loss : ~l.rated_mask[i]

(***************************************************************************)
(* Properties of the padded length chosen by preprocessing.                *)
(***************************************************************************)
Preprocessed == pc = "preprocessed" /\ batched.out.raised = "none"
\* the divisor level l requires of the sequence length
RequiredDivisor(l) ==
    IF model_cfg.mha_win_size[l] > 1
    THEN fpn_strides[l] * (model_cfg.mha_win_size[l] \div 2) * 2
    ELSE fpn_strides[l]

\* C22: for an accepted configuration, the padded length of an inference
\* call is >= the input length and is divisible by every level's required
\* divisor; it is max_seq_len for inputs no longer than max_seq_len and the
\* next multiple of max_div_factor for longer ones; the mask is true
\* exactly on the first input-length positions.
C22_PaddedDivisible ==
    (Preprocessed /\ ~batched.training) =>
        LET len == batched.feats_lens[1]
            padded == batched.out.max_len
            mask == batched.out.batched_masks[1]
        IN  /\ padded >= len
            /\ \A l \in 1..NumLevels : padded % RequiredDivisor(l) = 0
            /\ len <= model_cfg.max_seq_len => padded = model_cfg.max_seq_len
            /\ len > model_cfg.max_seq_len =>
                  /\ padded % model_cfg.max_div_factor = 0
                  /\ padded - len < model_cfg.max_div_factor
            /\ DOMAIN mask = 1..padded
            /\ \A t \in 1..padded : mask[t] <=> (t <= len)

(***************************************************************************)
(* Properties of the neighbour windows of the boundary heads.              *)
(***************************************************************************)
\* the logit a window slot must hold: position q (from 1) of the row, or 0
\* outside it
LogitOrZero(row, q) == IF q >= 1 /\ q <= Len(row) THEN row[q] ELSE Zero
WindowSlots == 0..num_bins

\* C17: slot j of the left window of class c at position t is the
\* start-head logit of class c at position t - num_bins + j (0 before the
\* first position), slot j of the right window is the end-head logit of
\* class c at position t + j (0 after the last position); this holds for
\* the windows inference builds for every video and level, and in the loss
\* computation for every level and batch element, each window reading only
\* its own batch element and class.
C17_NeighbourWindows ==
    /\ (Called /\ fwd.returned = "results") =>
          \A b \in DOMAIN fwd.neighbours : \A i \in DOMAIN fwd.neighbours[b] :
              LET n == fwd.neighbours[b][i]
              IN  \A c \in DOMAIN n.sb_cls_i : \A t \in 1..Len(n.sb_cls_i[c]) :
                    \A j \in WindowSlots :
                      /\ n.pred_start_neighbours[c][t][j + 1] =
                             LogitOrZero(n.sb_cls_i[c], t - num_bins + j)
                      /\ n.pred_end_neighbours[c][t][j + 1] =
                             LogitOrZero(n.eb_cls_i[c], t + j)
    /\ (Called /\ fwd.returned = "losses") =>
          LET l == fwd.losses
          IN  \A i \in DOMAIN l.out_start : \A b \in DOMAIN l.out_start[i] :
                \A c \in DOMAIN l.out_start[i][b] :
                  \A t \in 1..Len(l.out_start[i][b][c]) : \A j \in WindowSlots :
                    /\ l.out_start_logits[i][b][t][c][j + 1] =
                           LogitOrZero(l.out_start[i][b][c], t - num_bins + j)
                    /\ l.out_end_logits[i][b][t][c][j + 1] =
                           LogitOrZero(l.out_end[i][b][c], t + j)

\* a batch of two videos: the windows of the second video's second class
\* hold that row's own logits around position t and zeros outside the row
C17_Witness ==
    /\ Called /\ fwd.returned = "losses"
    /\ Len(fwd.losses.out_start[1]) = 2
    /\ LET l == fwd.losses
           row == l.out_start[1][2][2]
       IN  /\ l.out_start_logits[1][2][3][2][num_bins + 1] = row[3]
           /\ l.out_start_logits[1][2][3][2][num_bins] = row[2]
           /\ l.out_start_logits[1][2][3][2][1] = Zero
           /\ l.out_end_logits[1][2][3][2][1] = l.out_end[1][2][2][3]
           /\ l.out_end_logits[1][2][3][2][2] = l.out_end[1][2][2][4]
           /\ l.out_end_logits[1][2][3][2][3] = Zero
           /\ row[3] # row[2] /\ row[3] # l.out_start[1][1][2][3]
           /\ row[3] # l.out_start[1][2][1][3]

====
